---- MODULE Spec2Model ----
(***************************************************************************)
(* Model of the rss_reader package (NickolaiLychagin/rss_reader):          *)
(*   rss_reader_dates.py  parse_date                                       *)
(*   rss_reader_sql.py    create_sql_table, store_to_sql,                  *)
(*                        retrieve_from_sql, clean_cache                   *)
(*   rss_reader_text.py   strip_text, get_image_link, get_absolute_url     *)
(*   rss_reader_xml.py    download_xml, process_rss                        *)
(*   app.py               run                                              *)
(* Text that the code inspects character by character (raw dates, channel  *)
(* URLs used as LIKE patterns, query dates) is a sequence of one-character *)
(* strings; text the code only stores and compares is a TLA+ string.       *)
(***************************************************************************)
EXTENDS Integers, Sequences, FiniteSets, TLC

(***************************************************************************)
(* Python / SQLite string primitives                                       *)
(***************************************************************************)

Min(a, b) == IF a < b THEN a ELSE b

Max(a, b) == IF a > b THEN a ELSE b

\* Python slice s[a:b] (0-based, negative indices count from the end,
\* out-of-range indices are clamped); a and b are <<i>>, or << >> for a
\* bound left out
PySlice(s, a, b) ==
    LET n  == Len(s)
        lo == IF a = << >> THEN 0
              ELSE IF a[1] < 0 THEN Max(n + a[1], 0) ELSE Min(a[1], n)
        hi == IF b = << >> THEN n
              ELSE IF b[1] < 0 THEN Max(n + b[1], 0) ELSE Min(b[1], n)
    IN  IF lo >= hi THEN << >> ELSE SubSeq(s, lo + 1, hi)

\* the first of the positions ks
FirstPos(ks) == CHOOSE k \in ks : \A j \in ks : k <= j

\* the first of the positions ks, 0 when there is none
FirstOrZero(ks) == IF ks = {} THEN 0 ELSE FirstPos(ks)

DigitChars == <<"0", "1", "2", "3", "4", "5", "6", "7", "8", "9">>

IsDigit(c) == \E i \in 1..10 : DigitChars[i] = c

DigitVal(c) == (CHOOSE i \in 1..10 : DigitChars[i] = c) - 1

\* ASCII lower-casing (re.IGNORECASE, LIKE)
UpperChars ==
    <<"A", "B", "C", "D", "E", "F", "G", "H", "I", "J", "K", "L", "M",
      "N", "O", "P", "Q", "R", "S", "T", "U", "V", "W", "X", "Y", "Z">>

LowerChars ==
    <<"a", "b", "c", "d", "e", "f", "g", "h", "i", "j", "k", "l", "m",
      "n", "o", "p", "q", "r", "s", "t", "u", "v", "w", "x", "y", "z">>

ToLower(c) ==
    IF \E i \in 1..Len(UpperChars) : UpperChars[i] = c
    THEN LowerChars[CHOOSE i \in 1..Len(UpperChars) : UpperChars[i] = c]
    ELSE c

\* int() of a string of decimal digits, a leading space allowed (" 5" -> 5)
RECURSIVE IntOf(_)
IntOf(s) ==
    IF s = << >> THEN 0
    ELSE IF s[Len(s)] = " " THEN 0
    ELSE IntOf(SubSeq(s, 1, Len(s) - 1)) * 10 + DigitVal(s[Len(s)])

\* str(n).zfill(w) as a character sequence
RECURSIVE ZeroPad(_, _)
ZeroPad(n, w) ==
    IF w = 0 THEN << >>
    ELSE Append(ZeroPad(n \div 10, w - 1), DigitChars[(n % 10) + 1])

(***************************************************************************)
(* datetime.strptime (CPython _strptime.py): the format is compiled to a   *)
(* regular expression, one alternation per directive, whitespace in the    *)
(* format matching \s+; the first match found by the backtracking matcher  *)
(* must end at the end of the string; the fields must form a valid date.   *)
(***************************************************************************)

\* locale_time.a_month[1:], lower case
MonthNames ==
    << <<"j","a","n">>, <<"f","e","b">>, <<"m","a","r">>, <<"a","p","r">>,
       <<"m","a","y">>, <<"j","u","n">>, <<"j","u","l">>, <<"a","u","g">>,
       <<"s","e","p">>, <<"o","c","t">>, <<"n","o","v">>, <<"d","e","c">> >>

\* the value of the digit at position p of s, -1 where there is none
DigitAt(s, p) ==
    IF p <= Len(s) /\ IsDigit(s[p]) THEN DigitVal(s[p]) ELSE 0 - 1

\* the length of the text a directive's group matches at position p of s:
\* that of the first alternative of its regular expression that matches,
\* 0 when none does; a and b are the digits at p and p + 1
GroupLen(d, s, p, a, b) ==
        CASE d = "%d" ->
               \* 3[0-1]|[1-2]\d|0[1-9]|[1-9]| [1-9]
               IF (a = 3 /\ b \in 0..1) \/ (a \in 1..2 /\ b >= 0)
                  \/ (a = 0 /\ b \in 1..9) THEN 2
               ELSE IF a \in 1..9 THEN 1
               ELSE IF p <= Len(s) /\ s[p] = " " /\ b \in 1..9 THEN 2
               ELSE 0
          [] d = "%m" ->
               \* 1[0-2]|0[1-9]|[1-9]
               IF (a = 1 /\ b \in 0..2) \/ (a = 0 /\ b \in 1..9) THEN 2
               ELSE IF a \in 1..9 THEN 1
               ELSE 0
          [] d = "%H" ->
               \* 2[0-3]|[0-1]\d|\d
               IF (a = 2 /\ b \in 0..3) \/ (a \in 0..1 /\ b >= 0) THEN 2
               ELSE IF a >= 0 THEN 1
               ELSE 0
          [] d = "%M" ->
               \* [0-5]\d|\d
               IF a \in 0..5 /\ b >= 0 THEN 2
               ELSE IF a >= 0 THEN 1
               ELSE 0
          [] d = "%S" ->
               \* 6[0-1]|[0-5]\d|\d
               IF (a = 6 /\ b \in 0..1) \/ (a \in 0..5 /\ b >= 0) THEN 2
               ELSE IF a >= 0 THEN 1
               ELSE 0
          [] d = "%Y" ->
               \* \d\d\d\d
               IF \A i \in 0..3 : DigitAt(s, p + i) >= 0 THEN 4 ELSE 0
          [] d = "%y" ->
               \* \d\d
               IF a >= 0 /\ b >= 0 THEN 2 ELSE 0
          [] d = "%b" ->
               \* jan|feb|...|dec, letters of either case
               IF \E k \in 1..12 : \A i \in 1..3 :
                     p + i - 1 <= Len(s)
                     /\ ToLower(s[p + i - 1]) = MonthNames[k][i]
               THEN 3 ELSE 0
          [] OTHER -> 0

\* the value of a group: the number of the month for %b, int() otherwise
GroupVal(d, txt) ==
    IF d = "%b"
    THEN CHOOSE k \in 1..12 : \A i \in 1..3 : ToLower(txt[i]) = MonthNames[k][i]
    ELSE IntOf(txt)

IsDirective(d) == d \in {"%d", "%m", "%H", "%M", "%S", "%Y", "%y", "%b"}

NoGroups ==
    [d \in {"%d", "%m", "%H", "%M", "%S", "%Y", "%y", "%b"} |-> 0 - 1]

\* the matcher's failure value (a match never ends at position 0)
NoMatch == [grp |-> NoGroups, end |-> 0]

\* number of whitespace characters of s starting at position p
RECURSIVE SpaceRun(_, _)
SpaceRun(s, p) ==
    IF p <= Len(s) /\ s[p] = " " THEN 1 + SpaceRun(s, p + 1) ELSE 0

\* re.match of the compiled format fmt[k..] against s at position p, given
\* the groups g found so far: the groups and the end of the match, or
\* NoMatch.  In the formats of parse_date every group is followed by a
\* character that none of its shorter alternatives leaves to match (a
\* separator after digits, a letter or digit after \s+), so the first
\* alternative that matches is the only one that can lead to a match.
RECURSIVE ReMatch(_, _, _, _, _)
RECURSIVE ReStep(_, _, _, _, _, _)

\* the length of the text the token tok of a format matches at p, 0 for none
TokenLen(tok, s, p) ==
    IF IsDirective(tok)
    THEN GroupLen(tok, s, p, DigitAt(s, p), DigitAt(s, p + 1))
    ELSE IF tok = " " THEN SpaceRun(s, p)
    ELSE IF p <= Len(s) /\ ToLower(s[p]) = ToLower(tok) THEN 1
    ELSE 0

ReMatch(fmt, k, s, p, g) ==
    IF k > Len(fmt) THEN [grp |-> g, end |-> p]
    ELSE ReStep(fmt, k, s, p, g, TokenLen(fmt[k], s, p))

\* the match goes on behind the n characters that token k matched
ReStep(fmt, k, s, p, g, n) ==
    IF n = 0 THEN NoMatch
    ELSE ReMatch(fmt, k + 1, s, p + n,
                 IF IsDirective(fmt[k])
                 THEN [g EXCEPT ![fmt[k]] =
                          GroupVal(fmt[k], SubSeq(s, p, p + n - 1))]
                 ELSE g)

IsLeap(y) == (y % 4 = 0) /\ ((y % 100 # 0) \/ (y % 400 = 0))

DaysInMonth(y, m) ==
    IF m = 2 THEN (IF IsLeap(y) THEN 29 ELSE 28)
    ELSE IF m \in {4, 6, 9, 11} THEN 30 ELSE 31

\* Strptime's value where Python raises ValueError
ValueError == << >>

\* the fields of the groups g, with strptime's defaults and its century
\* rule for %y
GroupFields(g) ==
    << IF g["%Y"] >= 0 THEN g["%Y"]
       ELSE IF g["%y"] < 0 THEN 1900
       ELSE IF g["%y"] <= 68 THEN 2000 + g["%y"] ELSE 1900 + g["%y"],
       IF g["%b"] >= 0 THEN g["%b"] ELSE IF g["%m"] >= 0 THEN g["%m"] ELSE 1,
       IF g["%d"] >= 0 THEN g["%d"] ELSE 1,
       IF g["%H"] >= 0 THEN g["%H"] ELSE 0,
       IF g["%M"] >= 0 THEN g["%M"] ELSE 0,
       IF g["%S"] >= 0 THEN g["%S"] ELSE 0 >>

\* datetime(*fields): the timestamp, or ValueError for a date or a second
\* that does not exist
DatetimeOf(ts) ==
    IF ts[1] < 1 \/ ts[3] > DaysInMonth(ts[1], ts[2]) \/ ts[6] > 59
    THEN ValueError
    ELSE ts

\* the result of strptime for the match r of a string of n characters
MatchedDate(r, n) ==
    IF r = NoMatch \/ r.end # n + 1 THEN ValueError
    ELSE DatetimeOf(GroupFields(r.grp))

\* datetime.strptime(s, fmt): a timestamp <<Y, M, D, h, m, s>>, or ValueError
Strptime(s, fmt) == MatchedDate(ReMatch(fmt, 1, s, 1, NoGroups), Len(s))

(***************************************************************************)
(* rss_reader_dates.py                                                     *)
(***************************************************************************)

\* the five positional rules of parse_date: the slice bounds (an empty
\* tuple where the slice has none) and the strptime format
DateFormats ==
    << [lo |-> <<5>>, hi |-> <<25>>,
        fmt |-> <<"%d", " ", "%b", " ", "%Y", " ", "%H", ":", "%M", ":", "%S">>],
       [lo |-> <<5>>, hi |-> <<23>>,
        fmt |-> <<"%d", " ", "%b", " ", "%y", " ", "%H", ":", "%M", ":", "%S">>],
       [lo |-> << >>, hi |-> <<19>>,
        fmt |-> <<"%Y", "-", "%m", "-", "%d", "T", "%H", ":", "%M", ":", "%S">>],
       [lo |-> << >>, hi |-> << >>,
        fmt |-> <<"%Y", "-", "%m", "-", "%d", " ", "%H", ":", "%M", ":", "%S">>],
       [lo |-> <<0 - 24>>, hi |-> <<0 - 4>>,
        fmt |-> <<"%d", " ", "%b", " ", "%Y", " ", "%H", ":", "%M", ":", "%S">>] >>

\* datetime(1900, 1, 1)
SentinelDate == <<1900, 1, 1, 0, 0, 0>>

\* the loop of parse_date: the timestamp of the first rule that parses,
\* ValueError standing for date_as_date = None after the loop
RECURSIVE TryFormatsFrom(_, _)
RECURSIVE TryNext(_, _, _)
TryFormatsFrom(date, i) ==
    IF i > Len(DateFormats) THEN ValueError
    ELSE TryNext(date, i,
                 Strptime(PySlice(date, DateFormats[i].lo, DateFormats[i].hi),
                          DateFormats[i].fmt))

\* rule i gave d: break on a timestamp, continue on ValueError
TryNext(date, i, d) ==
    IF d # ValueError THEN d ELSE TryFormatsFrom(date, i + 1)

\* the rules tried from the last to the first
RECURSIVE TryFormatsBack(_, _)
TryFormatsBack(date, i) ==
    IF i < 1 THEN ValueError
    ELSE IF Strptime(PySlice(date, DateFormats[i].lo, DateFormats[i].hi),
                     DateFormats[i].fmt) # ValueError
         THEN Strptime(PySlice(date, DateFormats[i].lo, DateFormats[i].hi),
                       DateFormats[i].fmt)
    ELSE TryFormatsBack(date, i - 1)

TryFormatsLast(date) == TryFormatsBack(date, Len(DateFormats))

TryFormats(date) == TryFormatsFrom(date, 1)

(***************************************************************************)
(* Inputs: the channels, raw dates and items the feeds of the model carry  *)
(***************************************************************************)

\* largest number of items in one batch handed to store_to_sql
MaxBatch == 2

\* largest surrogate id the model lets AUTOINCREMENT hand out
MaxId == 3

\* largest --limit value (parse_args admits every limit >= 1)
MaxLimit == 2

\* an optional argument: PyNone, or Some(x)
PyNone == << >>

Some(x) == <<x>>

UrlAUnderB ==
    <<"h", "t", "t", "p", ":", "/", "/", "h", "/", "a", "_", "b">>

UrlAxB ==
    <<"h", "t", "t", "p", ":", "/", "/", "h", "/", "a", "x", "b">>

\* (channel title, channel URL) of the feeds
Channels ==
    { [Title |-> <<"c", "1">>, Description |-> << >>, URL |-> UrlAUnderB],
      [Title |-> <<"c", "2">>, Description |-> << >>, URL |-> UrlAxB] }

\* RFC-822 with a 4-digit year: 2021-10-12 17:06:02
DateRfc4 ==
    <<"T", "u", "e", ",", " ", "1", "2", " ",
      "O", "c", "t", " ", "2", "0", "2", "1",
      " ", "1", "7", ":", "0", "6", ":", "0",
      "2", " ", "+", "0", "3", "0", "0">>

\* RFC-822 with a 2-digit year: 2021-10-12 21:16:42
DateRfc2 ==
    <<"T", "u", "e", ",", " ", "1", "2", " ",
      "O", "c", "t", " ", "2", "1", " ", "2",
      "1", ":", "1", "6", ":", "4", "2", " ",
      "+", "0", "3", "0", "0">>

\* ISO-8601 with Z: 2021-10-13 08:00:00
DateIsoZ ==
    <<"2", "0", "2", "1", "-", "1", "0", "-",
      "1", "3", "T", "0", "8", ":", "0", "0",
      ":", "0", "0", "Z">>

\* matches none of the rules
DateDotted ==
    <<"1", "2", ".", "1", "0", ".", "2", "0",
      "2", "1">>

\* the 2-digit-year example: 2021-10-12 17:06:02
DateRfc2Example ==
    <<"T", "u", "e", ",", " ", "1", "2", " ",
      "O", "c", "t", " ", "2", "1", " ", "1",
      "7", ":", "0", "6", ":", "0", "2", " ",
      "+", "0", "3", "0", "0">>

\* the ISO-8601 example with Z: 2021-10-12 17:06:02
DateIsoZExample ==
    <<"2", "0", "2", "1", "-", "1", "0", "-",
      "1", "2", "T", "1", "7", ":", "0", "6",
      ":", "0", "2", "Z">>

\* ISO-8601 with a space: 2021-10-12 17:06:02
DateIsoSpace ==
    <<"2", "0", "2", "1", "-", "1", "0", "-",
      "1", "2", " ", "1", "7", ":", "0", "6",
      ":", "0", "2">>

\* a long day name and a zone name: only the trailing rule parses
DateTrailing ==
    <<"T", "u", "e", "s", "d", "a", "y", ",",
      " ", "1", "2", " ", "O", "c", "t", " ",
      "2", "0", "2", "1", " ", "1", "7", ":",
      "0", "6", ":", "0", "2", " ", "E", "S",
      "T">>

\* rule 1 parses 12 Oct and rule 5 would parse 13 Oct
DateRfc4ThenTrailing ==
    <<"T", "u", "e", ",", " ", "1", "2", " ",
      "O", "c", "t", " ", "2", "0", "2", "1",
      " ", "1", "7", ":", "0", "6", ":", "0",
      "2", "1", "3", " ", "O", "c", "t", " ",
      "2", "0", "2", "1", " ", "1", "7", ":",
      "0", "6", ":", "0", "2", " ", "E", "S",
      "T">>

\* rule 2 parses 12 Oct and rule 5 would parse 13 Oct
DateRfc2ThenTrailing ==
    <<"T", "u", "e", ",", " ", "1", "2", " ",
      "O", "c", "t", " ", "2", "1", " ", "1",
      "7", ":", "0", "6", ":", "0", "2", "1",
      "3", " ", "O", "c", "t", " ", "2", "0",
      "2", "1", " ", "1", "7", ":", "0", "6",
      ":", "0", "2", " ", "E", "S", "T">>

\* rule 3 parses 12 Oct and rule 5 would parse 13 Oct
DateIsoThenTrailing ==
    <<"2", "0", "2", "1", "-", "1", "0", "-",
      "1", "2", "T", "1", "7", ":", "0", "6",
      ":", "0", "2", "Z", " ", "1", "3", " ",
      "O", "c", "t", " ", "2", "0", "2", "1",
      " ", "1", "7", ":", "0", "6", ":", "0",
      "2", " ", "E", "S", "T">>

\* further raw dates, each with what it is about
OtherDates ==
    {
      \* 31 February: the text matches rule 1, the date does not exist
      <<"T", "u", "e", ",", " ", "3", "1", " ",
        "F", "e", "b", " ", "2", "0", "2", "1",
        " ", "1", "7", ":", "0", "6", ":", "0",
        "2", " ", "+", "0", "3", "0", "0">>,
      \* 29 February of a leap year
      <<"S", "a", "t", ",", " ", "2", "9", " ",
        "F", "e", "b", " ", "2", "0", "2", "0",
        " ", "2", "3", ":", "5", "9", ":", "5",
        "9", " ", "G", "M", "T">>,
      \* 29 February 1900
      <<"T", "u", "e", ",", " ", "2", "9", " ",
        "F", "e", "b", " ", "1", "9", "0", "0",
        " ", "2", "3", ":", "5", "9", ":", "5",
        "9", " ", "G", "M", "T">>,
      \* a day of one digit: no slice holds the whole date
      <<"T", "u", "e", ",", " ", "5", " ", "O",
        "c", "t", " ", "2", "0", "2", "1", " ",
        "1", "7", ":", "0", "6", ":", "0", "2",
        " ", "+", "0", "3", "0", "0">>,
      \* no day name
      <<"1", "2", " ", "O", "c", "t", " ", "2",
        "0", "2", "1", " ", "1", "7", ":", "0",
        "6", ":", "0", "2", " ", "+", "0", "3",
        "0", "0">>,
      \* no day name, a zone of three letters: the trailing rule
      <<"1", "2", " ", "O", "c", "t", " ", "2",
        "0", "2", "1", " ", "1", "7", ":", "0",
        "6", ":", "0", "2", " ", "G", "M", "T">>,
      \* month in lower case
      <<"t", "u", "e", ",", " ", "1", "2", " ",
        "o", "c", "t", " ", "2", "0", "2", "1",
        " ", "1", "7", ":", "0", "6", ":", "0",
        "2", " ", "+", "0", "3", "0", "0">>,
      \* ISO-8601 with an offset
      <<"2", "0", "2", "1", "-", "1", "0", "-",
        "1", "2", "T", "1", "7", ":", "0", "6",
        ":", "0", "2", "+", "0", "3", ":", "0",
        "0">>,
      \* ISO-8601 date only
      <<"2", "0", "2", "1", "-", "1", "0", "-",
        "1", "2">>,
      \* ISO-8601 with fields of one digit
      <<"2", "0", "2", "1", "-", "1", "-", "2",
        " ", "3", ":", "4", ":", "5">>,
      \* second 60
      <<"T", "u", "e", ",", " ", "1", "2", " ",
        "O", "c", "t", " ", "2", "0", "2", "1",
        " ", "1", "7", ":", "0", "6", ":", "6",
        "0", " ", "+", "0", "3", "0", "0">>,
      \* hour 24
      <<"T", "u", "e", ",", " ", "1", "2", " ",
        "O", "c", "t", " ", "2", "0", "2", "1",
        " ", "2", "4", ":", "0", "6", ":", "0",
        "2", " ", "+", "0", "3", "0", "0">>,
      \* year 69 is 1969
      <<"T", "u", "e", ",", " ", "1", "2", " ",
        "O", "c", "t", " ", "6", "9", " ", "1",
        "7", ":", "0", "6", ":", "0", "2", " ",
        "+", "0", "3", "0", "0">>,
      \* year 68 is 2068
      <<"T", "u", "e", ",", " ", "1", "2", " ",
        "O", "c", "t", " ", "6", "8", " ", "1",
        "7", ":", "0", "6", ":", "0", "2", " ",
        "+", "0", "3", "0", "0">>,
      \* year 0
      <<"0", "0", "0", "0", "-", "1", "0", "-",
        "1", "2", " ", "1", "7", ":", "0", "6",
        ":", "0", "2">>,
      \* text only
      <<"y", "e", "s", "t", "e", "r", "d", "a",
        "y">>
    }


\* the raw dates of the model, and TryFormats tabulated over them
RawDates ==
    {DateRfc4, DateRfc2, DateIsoZ, DateDotted, << >>,
     DateRfc2Example, DateIsoZExample, DateIsoSpace, DateTrailing,
     DateRfc4ThenTrailing, DateRfc2ThenTrailing, DateIsoThenTrailing}
    \cup OtherDates

TriedFormats == [d \in RawDates |-> TryFormats(d)]

\* parse_date without its warning
DateOrSentinelSilent(date_as_date, title) ==
    IF date_as_date = ValueError
    THEN [date_as_date |-> SentinelDate, warnings |-> << >>]
    ELSE [date_as_date |-> date_as_date, warnings |-> << >>]

\* parse_date(date, title): the timestamp, and the titles named by the
\* warnings it logs
DateOrSentinel(date_as_date, title) ==
    IF date_as_date = ValueError
    THEN [date_as_date |-> SentinelDate, warnings |-> <<title>>]
    ELSE [date_as_date |-> date_as_date, warnings |-> << >>]

parse_date(date, title) == DateOrSentinel(TriedFormats[date], title)

Item(t, d, de, im, l) ==
    [Title |-> t, Date |-> d, Description |-> de, Image |-> im, Link |-> l]

\* items as process_rss yields them: every field a string, the link empty
\* when the feed gave none.  Under each link there are items that differ in
\* one field only.
NewsItems ==
    { Item(<<"t", "1">>, DateRfc4, <<"d", "1">>, <<"i", "1">>, <<"l", "1">>),
      Item(<<"t", "2">>, DateRfc4, <<"d", "1">>, <<"i", "1">>, <<"l", "1">>),
      Item(<<"t", "1">>, DateRfc2, <<"d", "1">>, <<"i", "1">>, <<"l", "1">>),
      Item(<<"t", "1">>, DateDotted, <<"d", "1">>, <<"i", "1">>, <<"l", "1">>),
      Item(<<"t", "1">>, DateRfc2, <<"d", "1">>, <<"i", "1">>, << >>),
      Item(<<"t", "1">>, DateRfc2, <<"d", "2">>, <<"i", "1">>, << >>),
      Item(<<"t", "1">>, DateRfc2, <<"d", "1">>, <<"i", "2">>, << >>) }

\* the batches: 1..MaxBatch items under one channel
RECURSIVE SeqsUpTo(_, _)
SeqsUpTo(S, n) ==
    IF n = 0 THEN { << >> }
    ELSE LET shorter == SeqsUpTo(S, n - 1)
         IN  shorter \cup { Append(q, x) : q \in shorter, x \in S }

Batches ==
    { [Channel |-> c, News |-> q] :
         c \in Channels, q \in SeqsUpTo(NewsItems, MaxBatch) \ { << >> } }

\* --date values, formatted YYYYMMDD
QueryDates ==
    { <<"2", "0", "2", "1", "1", "0", "1", "2">>,
      <<"1", "9", "0", "0", "0", "1", "0", "1">>,
      <<"2", "0", "2", "1", "1", "0", "1", "1">> }

\* source values of a query: a channel URL, or none
QuerySources == { PyNone, Some(UrlAUnderB), Some(UrlAxB) }

\* limit values of a query: 1..MaxLimit, or none
QueryLimits == { PyNone } \cup { Some(n) : n \in 1..MaxLimit }

(***************************************************************************)
(* The cache file and the SQL statements of rss_reader_sql.py              *)
(***************************************************************************)

VARIABLES
    cacheFile,    \* "absent", "empty" (a file without the table) or "table"
    accessible,   \* whether sqlite3.connect(CACHE_FILE) can open the file
    locked,       \* the lock a connection of another process holds on the
                  \* cache file during the next call: "no", "reserved" (it
                  \* is writing), "exclusive" (it is committing), "shared"
                  \* (it is reading), "late" (it takes the write lock right
                  \* after the first commit of the call)
    news,         \* the rows of table news, in rowid order
    seq,          \* sqlite_sequence of news: the largest id handed out
    call,         \* the last call and its arguments
    ret,          \* what the last call returned and the counts it computed
                  \* (rolled_back: the rows a failed store_to_sql had written
                  \* in its transaction)
    log,          \* the records the last call logged or printed
    pre,          \* table news and its sqlite_sequence before the last call
    again,        \* the last call repeats the call just before it, which
                  \* ended without a store error
    procs         \* the two processes that run store_to_sql at the same
                  \* time, each with its batch, the item of its next
                  \* statement, its connection and its status; << >> when
                  \* one process runs alone

storeVars == <<cacheFile, accessible, locked, news, seq>>

callVars == <<call, ret, log, pre, again>>

vars ==
    <<cacheFile, accessible, locked, news, seq, call, ret, log, pre, again,
      procs>>

\* ---- SQL expressions ----

\* url LIKE pat, from position j of url and i of pat: % matches any run of
\* characters, _ any one character, letters match case-insensitively
RECURSIVE LikeFrom(_, _, _, _)
LikeFrom(pat, i, txt, j) ==
    IF i > Len(pat) THEN j > Len(txt)
    ELSE IF pat[i] = "%"
         THEN \E k \in j..(Len(txt) + 1) : LikeFrom(pat, i + 1, txt, k)
    ELSE IF j > Len(txt) THEN FALSE
    ELSE IF pat[i] = "_" \/ ToLower(pat[i]) = ToLower(txt[j])
         THEN LikeFrom(pat, i + 1, txt, j + 1)
    ELSE FALSE

\* LIKE tabulated over the channel URLs and the patterns of the model
LikeTable ==
    [txt \in {c.URL : c \in Channels},
     pat \in {<<"%">>} \cup {s[1] : s \in QuerySources \ {PyNone}}
       |-> LikeFrom(pat, 1, txt, 1)]

Like(txt, pat) == LikeTable[txt, pat]

\* STRFTIME('%Y%m%d', date_as_date) of a stored timestamp (stored as the
\* text 'YYYY-MM-DD HH:MM:SS', which SQLite reads back field by field)
StrftimeYmd(ts) == ZeroPad(ts[1], 4) \o ZeroPad(ts[2], 2) \o ZeroPad(ts[3], 2)

\* a < b for two stored timestamps (the order of their texts)
RECURSIVE TsLessFrom(_, _, _)
TsLessFrom(a, b, i) ==
    IF i > Len(a) THEN FALSE
    ELSE IF a[i] # b[i] THEN a[i] < b[i]
    ELSE TsLessFrom(a, b, i + 1)

TsLess(a, b) == TsLessFrom(a, b, 1)

\* ---- statements, on a connection con = [news, seq, total_changes] ----

\* a UNIQUE constraint that lets the empty link repeat, as it lets NULL
HasLinkUnlessEmpty(rows, link) ==
    link # << >> /\ \E k \in 1..Len(rows) : rows[k].link = link

HasLink(rows, link) == \E k \in 1..Len(rows) : rows[k].link = link

\* an INSERT into a table whose column link is not UNIQUE
SqlInsertUnchecked(con, channel, url, title, date, date_as_date, desc, image, link) ==
    [con |-> [news |-> Append(con.news,
                              [id |-> con.seq + 1, channel |-> channel,
                               url |-> url, title |-> title, date |-> date,
                               date_as_date |-> date_as_date,
                               desc |-> desc, image |-> image, link |-> link]),
              seq |-> con.seq + 1,
              total_changes |-> con.total_changes + 1],
     integrity |-> FALSE]

\* INSERT INTO news(...) VALUES(...): a row with the next id, or
\* sqlite3.IntegrityError (integrity |-> TRUE) when the link is stored
SqlInsert(con, channel, url, title, date, date_as_date, desc, image, link) ==
    IF HasLink(con.news, link)
    THEN [con |-> con, integrity |-> TRUE]
    ELSE [con |-> [news |-> Append(con.news,
                                   [id |-> con.seq + 1, channel |-> channel,
                                    url |-> url, title |-> title, date |-> date,
                                    date_as_date |-> date_as_date,
                                    desc |-> desc, image |-> image,
                                    link |-> link]),
                   seq |-> con.seq + 1,
                   total_changes |-> con.total_changes + 1],
          integrity |-> FALSE]

\* a WHERE clause that leaves the image out of the comparison
UpdateWhereNoImage(row, title, date, desc, image, link) ==
    /\ row.link = link
    /\ (row.title # title \/ row.date # date \/ row.desc # desc)

\* a WHERE clause that selects the row by its link alone
UpdateWhereLinkOnly(row, title, date, desc, image, link) ==
    row.link = link

\* the WHERE clause of the UPDATE
UpdateWhere(row, title, date, desc, image, link) ==
    /\ row.link = link
    /\ (row.title # title \/ row.date # date \/ row.desc # desc
        \/ row.image # image)

\* an UPDATE whose WHERE clause leaves the link out
SqlUpdateAnyLink(con, title, date, date_as_date, desc, image, link) ==
    [news |-> [k \in 1..Len(con.news) |->
                 [con.news[k] EXCEPT !.title = title, !.date = date,
                                     !.date_as_date = date_as_date,
                                     !.desc = desc, !.image = image]],
     seq |-> con.seq,
     total_changes |-> con.total_changes + Len(con.news)]

\* UPDATE news SET title, date, date_as_date, desc, image WHERE ...
SqlUpdate(con, title, date, date_as_date, desc, image, link) ==
    LET hit(k) == UpdateWhere(con.news[k], title, date, desc, image, link)
    IN  [news |-> [k \in 1..Len(con.news) |->
                      IF hit(k)
                      THEN [con.news[k] EXCEPT !.title = title, !.date = date,
                                !.date_as_date = date_as_date,
                                !.desc = desc, !.image = image]
                      ELSE con.news[k]],
         seq |-> con.seq,
         total_changes |-> con.total_changes
                           + Cardinality({k \in 1..Len(con.news) : hit(k)})]

\* INSERT OR REPLACE in place of INSERT and UPDATE: the stored row of the
\* link is deleted and a row with a new id is added
StoreItemReplace(con, channel, url, item) ==
    SqlInsert([con EXCEPT !.news = SelectSeq(con.news,
                                            LAMBDA r : r.link # item.Link)],
              channel, url, item.Title, item.Date,
              parse_date(item.Date, item.Title).date_as_date,
              item.Description, item.Image, item.Link).con

\* the body of store_to_sql's loop for one item
StoreItem(con, channel, url, item) ==
    LET date_as_date == parse_date(item.Date, item.Title).date_as_date
        ins == SqlInsert(con, channel, url, item.Title, item.Date,
                         date_as_date, item.Description, item.Image, item.Link)
    IN  IF ins.integrity
        THEN SqlUpdate(con, item.Title, item.Date, date_as_date,
                       item.Description, item.Image, item.Link)
        ELSE ins.con

\* the loop of store_to_sql over the items News 1 .. News n, from item i
RECURSIVE StoreLoop(_, _, _, _, _)
StoreLoop(con, channel, url, items, i) ==
    IF i > Len(items) THEN con
    ELSE StoreLoop(StoreItem(con, channel, url, items[i]),
                   channel, url, items, i + 1)

\* the warnings parse_date logs during the loop
RECURSIVE DateWarnings(_, _)
DateWarnings(items, i) ==
    IF i > Len(items) THEN << >>
    ELSE LET w == parse_date(items[i].Date, items[i].Title).warnings
         IN  [k \in 1..Len(w) |-> [level |-> "warning", msg |-> "wrong date",
                                   title |-> w[k]]]
             \o DateWarnings(items, i + 1)

\* ---- the functions of rss_reader_sql.py ----

LogError(m) == [level |-> "error", msg |-> m]

\* the cache file as a value: what a function of rss_reader_sql.py finds
\* and what it leaves
St ==
    [cacheFile |-> cacheFile, accessible |-> accessible, locked |-> locked,
     news |-> news, seq |-> seq]

\* what sqlite3.connect and the first statement do to the file: connect
\* fails on an inaccessible path and creates a missing file
Connected(st) == IF st.cacheFile = "absent" THEN "empty" ELSE st.cacheFile

\* a statement that needs one of the locks that the lock of the other
\* connection excludes waits for the timeout of the connection and raises
\* sqlite3.OperationalError("database is locked"): reading is excluded by
\* an exclusive lock, starting to write by a reserved or exclusive lock,
\* and a commit by any lock
Busy(st, locks) == st.cacheFile # "absent" /\ st.locked \in locks

ReadLocks == {"exclusive"}

WriteLocks == {"reserved", "exclusive"}

CommitLocks == {"reserved", "exclusive", "shared"}

\* create_sql_table(): the file it leaves, the value it returns (error: the
\* sqlite3.OperationalError it caught) and the records it logs
create_sql_table(st) ==
    IF ~st.accessible \/ st.cacheFile = "table" \/ Busy(st, CommitLocks)
    THEN [st |-> st, ret |-> [error |-> TRUE, value |-> FALSE],
          log |-> <<LogError("Unable to create cache file")>>]
    ELSE [st |-> [st EXCEPT !.cacheFile = "table", !.news = << >>, !.seq = 0],
          ret |-> [error |-> FALSE, value |-> TRUE],
          log |-> << >>]

\* lines 104-112 of store_to_sql, con being the connection after the loop
StoreEnd(st, items, con, warnings) ==
    [st |-> [st EXCEPT !.news = con.news, !.seq = con.seq],
     ret |-> [error |-> FALSE, changes |-> con.total_changes,
              existing |-> Len(items) + 1 - 1 - con.total_changes,
              rolled_back |-> 0],
     log |-> warnings
             \o <<[level |-> "info",
                   msg |-> IF Len(items) + 1 - 1 - con.total_changes # 0
                           THEN "saved to cache, already in cache"
                           ELSE "saved to cache",
                   changes |-> con.total_changes,
                   existing |-> Len(items) + 1 - 1 - con.total_changes]>>]

\* a connection in autocommit mode: what the loop wrote stays when the
\* commit raises
StoreFailedKeeping(st, con, warnings) ==
    [st |-> [st EXCEPT !.news = con.news, !.seq = con.seq],
     ret |-> [error |-> TRUE, changes |-> 0, existing |-> 0,
              rolled_back |-> con.total_changes],
     log |-> warnings \o <<LogError("Unable to store info to cache file")>>]

\* lines 103 and 113-114: con.commit() raises OperationalError after the
\* loop left the connection con; the transaction is rolled back when the
\* connection is closed
StoreFailed(st, con, warnings) ==
    [st |-> st,
     ret |-> [error |-> TRUE, changes |-> 0, existing |-> 0,
              rolled_back |-> con.total_changes],
     log |-> warnings \o <<LogError("Unable to store info to cache file")>>]

\* store_to_sql(news_dict)
store_to_sql(st, news_dict) ==
    IF ~st.accessible
    THEN [st |-> st,
          ret |-> [error |-> TRUE, changes |-> 0, existing |-> 0,
                   rolled_back |-> 0],
          log |-> <<LogError("Unable to store info to cache file")>>]
    ELSE IF st.cacheFile # "table" \/ Busy(st, WriteLocks)
    THEN [st |-> [st EXCEPT !.cacheFile = Connected(st)],
          ret |-> [error |-> TRUE, changes |-> 0, existing |-> 0,
                   rolled_back |-> 0],
          log |-> DateWarnings(SubSeq(news_dict.News, 1, 1), 1)
                  \o <<LogError("Unable to store info to cache file")>>]
    ELSE IF Busy(st, CommitLocks)
    THEN StoreFailed(st, StoreLoop([news |-> st.news, seq |-> st.seq,
                                    total_changes |-> 0],
                                   news_dict.Channel.Title,
                                   news_dict.Channel.URL, news_dict.News, 1),
                     DateWarnings(news_dict.News, 1))
    ELSE StoreEnd(st, news_dict.News,
                 StoreLoop([news |-> st.news, seq |-> st.seq,
                            total_changes |-> 0],
                           news_dict.Channel.Title, news_dict.Channel.URL,
                           news_dict.News, 1),
                 DateWarnings(news_dict.News, 1))

\* a result entry with the columns of image and description swapped
ResultEntrySwapped(row) ==
    [Title |-> row.title, Channel |-> row.channel, Channel_URL |-> row.url,
     Date |-> row.date, Image |-> row.desc, Description |-> row.image,
     Link |-> row.link]

\* the row of news a result entry is built from
ResultEntry(row) ==
    [Title |-> row.title, Channel |-> row.channel, Channel_URL |-> row.url,
     Date |-> row.date, Image |-> row.image, Description |-> row.desc,
     Link |-> row.link]

\* the WHERE clause of the SELECT
SelectWhere(row, source, date) ==
    /\ Like(row.url, source)
    /\ StrftimeYmd(row.date_as_date) = date

\* the orders ORDER BY date_as_date ASC would give
AscOrders(rows, idx) ==
    LET n == Cardinality(idx)
    IN  { q \in [1..n -> idx] :
            /\ \A i, j \in 1..n : i # j => q[i] # q[j]
            /\ \A i, j \in 1..n :
                  i < j => ~TsLess(rows[q[j]].date_as_date,
                                   rows[q[i]].date_as_date) }

\* the orders ORDER BY date_as_date DESC may give the rows at indexes idx
\* (rows with equal timestamps come in any order)
DescOrders(rows, idx) ==
    LET n == Cardinality(idx)
    IN  { q \in [1..n -> idx] :
            /\ \A i, j \in 1..n : i # j => q[i] # q[j]
            /\ \A i, j \in 1..n :
                  i < j => ~TsLess(rows[q[i]].date_as_date,
                                   rows[q[j]].date_as_date) }

\* reformat_date: '%Y%m%d' to '%B %d, %Y' (the month as its number)
reformat_date(date) ==
    LET d == Strptime(date, <<"%Y", "%m", "%d">>)
    IN  [B |-> d[2], d |-> ZeroPad(d[3], 2), Y |-> ZeroPad(d[1], 4)]

\* the end of retrieve_from_sql for a non-empty news_dict
Found(news_dict, limit) ==
    [ret |-> [error |-> FALSE, none |-> FALSE, news_dict |-> news_dict],
     log |-> (IF limit # PyNone /\ Len(news_dict) < limit[1]
              THEN <<[level |-> "warning", msg |-> "Limit set but fewer found",
                      limit |-> limit[1], found |-> Len(news_dict)]>>
              ELSE << >>)
             \o <<[level |-> "info", msg |-> "retrieved from cache",
                   found |-> Len(news_dict)]>>]

\* an empty result handed back as a dictionary, without a record in the log
NotFoundSilent(date) ==
    [ret |-> [error |-> FALSE, none |-> FALSE, news_dict |-> << >>],
     log |-> << >>]

\* the end of retrieve_from_sql for an empty news_dict
NotFound(date) ==
    [ret |-> [error |-> FALSE, none |-> TRUE, news_dict |-> << >>],
     log |-> <<[level |-> "error", msg |-> "No information found in cache",
                date |-> reformat_date(date)]>>]

\* lines 139-164 of retrieve_from_sql for the rows fetched in the order q
Retrieved(st, date, limit, news_dict) ==
    IF Len(news_dict) > 0
    THEN [st |-> st, ret |-> Found(news_dict, limit).ret,
          log |-> Found(news_dict, limit).log]
    ELSE [st |-> st, ret |-> NotFound(date).ret, log |-> NotFound(date).log]

\* the rows cursor.fetchall() gives for the order q and the LIMIT
Fetched(st, q, limit) ==
    [n \in 1..(IF limit = PyNone THEN Len(q) ELSE Min(limit[1], Len(q)))
        |-> ResultEntry(st.news[q[n]])]

\* retrieve_from_sql(date, source, limit): the outcomes it may have (rows
\* with equal timestamps come in any order)
retrieve_from_sql(st, date, source, limit) ==
    IF ~st.accessible \/ st.cacheFile # "table" \/ Busy(st, ReadLocks)
    THEN { [st |-> [st EXCEPT !.cacheFile = IF st.accessible
                                             THEN Connected(st) ELSE @],
            ret |-> [error |-> TRUE, none |-> TRUE, news_dict |-> << >>],
            log |-> <<LogError("Unable to retrieve info from cache file")>>] }
    ELSE { Retrieved(st, date, limit, Fetched(st, q, limit)) :
             q \in DescOrders(st.news,
                              {k \in 1..Len(st.news) :
                                 SelectWhere(st.news[k],
                                             IF source = PyNone THEN <<"%">>
                                             ELSE source[1],
                                             date)}) }

\* str.upper() of the first character alone
PyUpperFirst(s) ==
    IF s = << >> THEN << >>
    ELSE <<IF \E k \in 1..Len(LowerChars) : LowerChars[k] = s[1]
           THEN UpperChars[CHOOSE k \in 1..Len(LowerChars) :
                             LowerChars[k] = s[1]]
           ELSE s[1]>>

\* str.upper() of the answers the model types
PyUpper(s) ==
    [i \in 1..Len(s) |->
        IF \E k \in 1..Len(LowerChars) : LowerChars[k] = s[i]
        THEN UpperChars[CHOOSE k \in 1..Len(LowerChars) : LowerChars[k] = s[i]]
        ELSE s[i]]

\* what the user may type at the confirmation prompt
Consents == { <<"y">>, <<"Y">>, <<"n">>, << >>, <<"y", "e", "s">> }

\* the record logged before the prompt
CleanRequested ==
    [level |-> "warning", msg |-> "User requested to clean cache file"]

\* clean_cache that runs VACUUM without the DELETE
clean_cache_without_delete(st, colorize, consent) ==
    [st |-> st, ret |-> [error |-> FALSE],
     log |-> <<CleanRequested,
               [level |-> "info", msg |-> "Cache file cleaned"],
               [level |-> "print", colorize |-> colorize,
                msg |-> "All data from cache file cleaned successfully"]>>]

\* clean_cache(colorize), consent being what the user types at the prompt
clean_cache(st, colorize, consent) ==
    IF PyUpper(consent) = <<"Y">>
    THEN IF \/ ~st.accessible
            \/ st.cacheFile # "table"
            \/ Busy(st, CommitLocks)
         THEN [st |-> [st EXCEPT !.cacheFile = IF st.accessible
                                               THEN Connected(st) ELSE @],
               ret |-> [error |-> TRUE],
               log |-> <<CleanRequested,
                         LogError("Unable to clean cache file")>>]
         ELSE IF Busy(st, {"late"})
         THEN [st |-> [st EXCEPT !.news = << >>],
               ret |-> [error |-> TRUE],
               log |-> <<CleanRequested,
                         LogError("Unable to clean cache file")>>]
         ELSE [st |-> [st EXCEPT !.news = << >>],
               ret |-> [error |-> FALSE],
               log |-> <<CleanRequested,
                         [level |-> "info", msg |-> "Cache file cleaned"],
                         [level |-> "print", colorize |-> colorize,
                          msg |-> "All data from cache file cleaned successfully"]>>]
    ELSE [st |-> st, ret |-> [error |-> FALSE],
          log |-> <<CleanRequested,
                    [level |-> "warning", msg |-> "Operation cancelled by user"],
                    [level |-> "print", colorize |-> colorize,
                     msg |-> "Operation cancelled"]>>]

\* ---- the calls ----

\* no call is in progress or recorded: a fresh invocation of the program
Idle == [op |-> "idle"]

\* the bookkeeping of every call: a call starts a fresh invocation or
\* repeats the invocation before it; the call, the rows before it, and
\* whether it is a repetition are recorded
Called(c) ==
    /\ call \in {Idle, c}
    /\ call' = c
    /\ pre' = [news |-> news, seq |-> seq]
    /\ again' = (call = c /\ ~ret.error)

\* the call c is made and ends as out tells (the model hands out the ids
\* 1..MaxId)
Returns(c, out) ==
    /\ Called(c)
    /\ out.st.seq <= MaxId
    /\ cacheFile' = out.st.cacheFile
    /\ news' = out.st.news
    /\ seq' = out.st.seq
    /\ ret' = out.ret
    /\ log' = out.log
    /\ locked' = "no"
    /\ UNCHANGED <<accessible, procs>>

Create == Returns([op |-> "create_sql_table"], create_sql_table(St))

Store ==
    \E b \in Batches :
        Returns([op |-> "store_to_sql", news_dict |-> b], store_to_sql(St, b))

\* one of the outcomes outs ends the call c
ReturnsOneOf(c, outs) ==
    /\ call \in {Idle, c}
    /\ \E out \in outs : Returns(c, out)

Retrieve ==
    \E d \in QueryDates, s \in QuerySources, l \in QueryLimits :
        ReturnsOneOf([op |-> "retrieve_from_sql", date |-> d, source |-> s,
                      limit |-> l],
                     retrieve_from_sql(St, d, s, l))

Clean ==
    \E c \in BOOLEAN, a \in Consents :
        Returns([op |-> "clean_cache", colorize |-> c, consent |-> a],
                clean_cache(St, c, a))

\* the environment makes the cache path accessible or inaccessible
SetAccessible ==
    /\ call = Idle
    /\ accessible' = ~accessible
    /\ UNCHANGED <<cacheFile, locked, news, seq, call, ret, log, pre, again,
                   procs>>

\* a connection of another process takes a lock on the cache file, or
\* gives it up
SetLocked ==
    /\ call = Idle
    /\ cacheFile # "absent"
    /\ \E l \in {"no", "reserved", "exclusive", "shared", "late"} \ {locked} :
          locked' = l
    /\ UNCHANGED <<cacheFile, accessible, news, seq, call, ret, log, pre,
                   again, procs>>

\* the invocation ends, every process of it having ended: its call record
\* and its log are gone
Finish ==
    /\ call # Idle
    /\ \A p \in 1..Len(procs) : procs[p].status # "running"
    /\ procs' = << >>
    /\ call' = Idle
    /\ ret' = [error |-> FALSE]
    /\ log' = << >>
    /\ pre' = [news |-> << >>, seq |-> 0]
    /\ again' = FALSE
    /\ UNCHANGED storeVars

\* ---- the store under any sequence of calls ----

Init ==
    /\ cacheFile = "absent"
    /\ accessible = TRUE
    /\ locked = "no"
    /\ news = << >>
    /\ seq = 0
    /\ call = Idle
    /\ ret = [error |-> FALSE]
    /\ log = << >>
    /\ pre = [news |-> << >>, seq |-> 0]
    /\ again = FALSE
    /\ procs = << >>

Next ==
    \/ Create
    \/ Store
    \/ Retrieve
    \/ Clean
    \/ SetAccessible
    \/ Finish

Spec == Init /\ [][Next]_vars

\* ---- the store while connections of other processes lock the file ----

NextBusy ==
    \/ Create
    \/ Store
    \/ Retrieve
    \/ Clean
    \/ SetLocked
    \/ Finish

SpecBusy == Init /\ [][NextBusy]_vars

\* ---- two processes in store_to_sql at the same time ----

\* items that differ in every field but the link, and an item of another
\* link
ItemOld ==
    Item(<<"t", "1">>, DateRfc4, <<"d", "1">>, <<"i", "1">>, <<"l", "1">>)

ItemNew ==
    Item(<<"t", "2">>, DateDotted, <<"d", "2">>, <<"i", "2">>, <<"l", "1">>)

ItemOther ==
    Item(<<"t", "1">>, DateRfc2, <<"d", "1">>, <<"i", "1">>, << >>)

TwoItems == {ItemOld, ItemNew, ItemOther}

\* the items of a batch of a process
MaxTwoBatch == 2

\* process p downloads the feed of channel p
ChannelOf(p) ==
    CHOOSE c \in Channels : c.Title = <<"c", IF p = 1 THEN "1" ELSE "2">>

TwoBatches(p) ==
    { [Channel |-> ChannelOf(p), News |-> q] :
        q \in SeqsUpTo(TwoItems, MaxTwoBatch) \ { << >> } }

\* a process that enters store_to_sql(news_dict): its next statement is
\* for item 1 and its connection has not begun a transaction
Entered(news_dict) ==
    [news_dict |-> news_dict, num |-> 1, con |-> << >>, status |-> "running"]

\* two processes enter store_to_sql
StartTwo ==
    /\ call = Idle
    /\ accessible
    /\ cacheFile = "table"
    /\ locked = "no"
    /\ \E b1 \in TwoBatches(1), b2 \in TwoBatches(2) :
          /\ procs' = <<Entered(b1), Entered(b2)>>
          /\ call' = [op |-> "store_to_sql twice", batches |-> <<b1, b2>>]
    /\ pre' = [news |-> news, seq |-> seq]
    /\ ret' = [error |-> FALSE]
    /\ log' = << >>
    /\ again' = FALSE
    /\ UNCHANGED storeVars

\* the connection of process q is in a write transaction: it holds the
\* reserved lock of the cache file from its first INSERT to its commit
HoldsWriteLock(q) == procs[q].status = "running" /\ procs[q].con # << >>

\* the other process
Other(p) == 3 - p

\* the records process p logs, by process
LoggedBy(p, records) ==
    [k \in 1..Len(records) |-> [proc |-> p, record |-> records[k]]]

\* lines 81-101 for the item of the next statement of process p, on the
\* connection con
Statement(p, con) ==
    LET d == procs[p].news_dict
        after == StoreItem(con, d.Channel.Title, d.Channel.URL,
                           d.News[procs[p].num])
    IN  /\ after.seq <= MaxId
        /\ procs' = [procs EXCEPT ![p].con = <<after>>, ![p].num = @ + 1]
        /\ log' = log \o LoggedBy(p, DateWarnings(SubSeq(d.News, procs[p].num,
                                                          procs[p].num), 1))
        /\ UNCHANGED <<storeVars, call, ret, pre, again>>

\* the first INSERT of process p opens its transaction on the rows that are
\* committed, once no other connection holds the write lock
FirstStatement(p) ==
    /\ procs # << >>
    /\ procs[p].status = "running"
    /\ procs[p].con = << >>
    /\ ~HoldsWriteLock(Other(p))
    /\ Statement(p, [news |-> news, seq |-> seq, total_changes |-> 0])

\* the first INSERT of process p waits for the write lock longer than the
\* timeout of its connection: sqlite3.OperationalError, lines 113-114
TimedOut(p) ==
    /\ procs # << >>
    /\ procs[p].status = "running"
    /\ procs[p].con = << >>
    /\ HoldsWriteLock(Other(p))
    /\ procs' = [procs EXCEPT ![p].status = "failed"]
    /\ log' = log \o LoggedBy(p, DateWarnings(SubSeq(procs[p].news_dict.News,
                                                      1, 1), 1)
                                  \o <<LogError("Unable to store info to cache file")>>)
    /\ ret' = [error |-> TRUE]
    /\ UNCHANGED <<storeVars, call, pre, again>>

\* a later INSERT or UPDATE of process p, in its transaction
NextStatement(p) ==
    /\ procs # << >>
    /\ procs[p].status = "running"
    /\ procs[p].con # << >>
    /\ procs[p].num <= Len(procs[p].news_dict.News)
    /\ Statement(p, procs[p].con[1])

\* line 103 of process p: con.commit() makes its rows the rows of the file
\* and gives the write lock up; lines 104-112 log the counts
Commit(p) ==
    /\ procs # << >>
    /\ procs[p].status = "running"
    /\ procs[p].con # << >>
    /\ procs[p].num > Len(procs[p].news_dict.News)
    /\ news' = procs[p].con[1].news
    /\ seq' = procs[p].con[1].seq
    /\ procs' = [procs EXCEPT ![p].status = "done"]
    /\ log' = log \o LoggedBy(p, StoreEnd(St, procs[p].news_dict.News,
                                          procs[p].con[1], << >>).log)
    /\ UNCHANGED <<cacheFile, accessible, locked, call, ret, pre, again>>

StepTwo ==
    \E p \in 1..2 :
        \/ FirstStatement(p)
        \/ TimedOut(p)
        \/ NextStatement(p)
        \/ Commit(p)

NextTwo ==
    \/ Create
    \/ StartTwo
    \/ StepTwo
    \/ Finish

SpecTwo == Init /\ [][NextTwo]_vars

\* ---- properties of two processes in store_to_sql ----

\* both processes have left store_to_sql
TwoEnded ==
    /\ procs # << >>
    /\ \A p \in 1..2 : procs[p].status # "running"

\* the row holds the five fields of item i of the batch of process p, the
\* parsed date being the one parse_date gives for the item
FromItem(row, p, i) ==
    LET item == procs[p].news_dict.News[i]
    IN  /\ row.link = item.Link
        /\ row.title = item.Title
        /\ row.date = item.Date
        /\ row.date_as_date = parse_date(item.Date, item.Title).date_as_date
        /\ row.desc = item.Description
        /\ row.image = item.Image

\* no two of the rows have the same link
UniqueLinks(rows) ==
    \A j, k \in 1..Len(rows) : j # k => rows[j].link # rows[k].link

\* C25: while two processes run store_to_sql at the same time, in whatever
\* order their statements are executed, the cache never holds two records
\* with the same link (nor does the transaction of either), and once both
\* have ended every record that they wrote holds the title, the date, the
\* parsed date, the description and the image of one single item of one of
\* the two batches (the other records are as they were before)
C25_ConcurrentUpserts ==
    procs # << >> =>
        /\ UniqueLinks(news)
        /\ \A p \in 1..2 :
              procs[p].con # << >> => UniqueLinks(procs[p].con[1].news)
        /\ TwoEnded =>
              \A k \in 1..Len(news) :
                  \/ \E j \in 1..Len(pre.news) : pre.news[j] = news[k]
                  \/ \E p \in 1..2 :
                        \E i \in 1..Len(procs[p].news_dict.News) :
                            FromItem(news[k], p, i)

\* both processes stored a batch, the first with an item and the second
\* with another item of the same link, into a cache without that link
C25_Witness ==
    /\ procs # << >>
    /\ procs[1].status = "done"
    /\ procs[2].status = "done"
    /\ \E i \in 1..Len(procs[1].news_dict.News) :
          procs[1].news_dict.News[i] = ItemOld
    /\ \E i \in 1..Len(procs[2].news_dict.News) :
          procs[2].news_dict.News[i] = ItemNew
    /\ ~HasLink(pre.news, ItemOld.Link)
    /\ HasLink(news, ItemOld.Link)

\* the second process gave up waiting for the write lock while the first
\* stored its batch
C25_WitnessTimedOut ==
    /\ procs # << >>
    /\ procs[1].status = "done"
    /\ procs[2].status = "failed"
    /\ news # pre.news

(***************************************************************************)
(* rss_reader_text.py                                                      *)
(***************************************************************************)

\* U+00A0, the character &nbsp; stands for
NBSP == "U+00A0"

\* the characters \s matches and str.strip() removes
Whitespace == {" ", "\t", "\n", "\r", "\f", NBSP}

\* the word w stands in s at position p
StartsAt(s, p, w) ==
    /\ p + Len(w) - 1 <= Len(s)
    /\ \A i \in 1..Len(w) : s[p + i - 1] = w[i]

\* the position j is one of the stops; 0 for a newline (the dot matches
\* none) and where there is no position
StopAt(s, j, stops) == IF j # 0 /\ s[j] \in stops THEN j ELSE 0

\* the lazy .*? followed by one of the characters stops, from position k:
\* the first position k' >= k that holds a stop with no newline in
\* s[k..k'-1] (the dot matches no newline), or 0
LazyUntil(s, k, stops) ==
    StopAt(s, FirstOrZero({j \in k..Len(s) : s[j] \in stops \/ s[j] = "\n"}),
           stops)

\* the end of the match of  w.+?>  at position p, or 0
LazyTagEnd(s, p, w) ==
    IF StartsAt(s, p, w) /\ p + Len(w) <= Len(s) /\ s[p + Len(w)] # "\n"
    THEN LazyUntil(s, p + Len(w) + 1, {">"})
    ELSE 0

\* s[p..q], empty when q < p
Piece(s, p, q) == IF q < p THEN << >> ELSE SubSeq(s, p, q)

\* the text from p on, q being the first position from p on at which
\* <.+?> matches (0: it matches nowhere): the characters before the match
\* stay, the match goes, the search goes on behind it
RECURSIVE SubTags(_, _)
SubTagsBehind(s, p, q) ==
    IF q = 0 THEN Piece(s, p, Len(s))
    ELSE Piece(s, p, q - 1) \o SubTags(s, LazyTagEnd(s, q, <<"<">>) + 1)

\* re.sub(r"<.+?>", "", s) from position p
SubTags(s, p) ==
    IF p > Len(s) THEN << >>
    ELSE SubTagsBehind(s, p,
             FirstOrZero({i \in p..Len(s) : LazyTagEnd(s, i, <<"<">>) # 0}))

\* the length of the run of whitespace at position p
RECURSIVE WhiteRun(_, _)
WhiteRun(s, p) ==
    IF p <= Len(s) /\ s[p] \in Whitespace THEN 1 + WhiteRun(s, p + 1) ELSE 0

\* the length of the run of whitespace that ends at position p
RECURSIVE WhiteRunBack(_, _)
WhiteRunBack(s, p) ==
    IF p >= 1 /\ s[p] \in Whitespace THEN 1 + WhiteRunBack(s, p - 1) ELSE 0

\* s without its first lead and its last trail characters
StripTo(s, lead, trail) ==
    IF lead = Len(s) THEN << >> ELSE SubSeq(s, lead + 1, Len(s) - trail)

\* str.strip()
PyStrip(s) == StripTo(s, WhiteRun(s, 1), WhiteRunBack(s, Len(s)))

Nbsp == <<"&", "n", "b", "s", "p", ";">>

\* the length of the match of \s{2,}|&nbsp;|\n at position p, 0 for none,
\* the run of whitespace at p being n long
SpacesLen(s, p, n) ==
    IF n >= 2 THEN n
    ELSE IF StartsAt(s, p, Nbsp) THEN Len(Nbsp)
    ELSE IF s[p] = "\n" THEN 1
    ELSE 0

\* the text from p on, q being the first position from p on at which the
\* pattern matches (0: it matches nowhere)
RECURSIVE SubSpaces(_, _)
SubSpacesAt(s, p, q) ==
    IF q = 0 THEN Piece(s, p, Len(s))
    ELSE Piece(s, p, q - 1) \o <<" ">>
         \o SubSpaces(s, q + SpacesLen(s, q, WhiteRun(s, q)))

\* re.sub(r"\s{2,}|&nbsp;|\n", " ", s) from position p
SubSpaces(s, p) ==
    IF p > Len(s) THEN << >>
    ELSE SubSpacesAt(s, p,
             FirstOrZero({i \in p..Len(s) :
                            SpacesLen(s, i, WhiteRun(s, i)) # 0}))

\* html.unescape: the character references the texts of the model use,
\* of the table html.entities.html5 (a name without its semicolon is a key
\* of its own for the references HTML 4 knew)
Html5 ==
    { [name |-> <<"l", "t", ";">>, char |-> "<"],
      [name |-> <<"l", "t">>, char |-> "<"],
      [name |-> <<"g", "t", ";">>, char |-> ">"],
      [name |-> <<"g", "t">>, char |-> ">"],
      [name |-> <<"a", "m", "p", ";">>, char |-> "&"],
      [name |-> <<"a", "m", "p">>, char |-> "&"],
      [name |-> <<"q", "u", "o", "t", ";">>, char |-> "\""],
      [name |-> <<"q", "u", "o", "t">>, char |-> "\""],
      [name |-> <<"n", "b", "s", "p", ";">>, char |-> NBSP],
      [name |-> <<"n", "b", "s", "p">>, char |-> NBSP],
      [name |-> <<"a", "p", "o", "s", ";">>, char |-> "'"] }

InHtml5(w) == \E e \in Html5 : e.name = w

Html5Of(w) == (CHOOSE e \in Html5 : e.name = w).char

\* chr(num) for the numeric references the texts of the model use
Chr(num) ==
    CASE num = 9 -> "\t"
      [] num = 10 -> "\n"
      [] num = 32 -> " "
      [] num = 38 -> "&"
      [] num = 60 -> "<"
      [] num = 62 -> ">"
      [] num = 160 -> NBSP

\* the length of the run [0-9]+ at position p
RECURSIVE DigitRun(_, _)
DigitRun(s, p) ==
    IF p <= Len(s) /\ IsDigit(s[p]) THEN 1 + DigitRun(s, p + 1) ELSE 0

\* the length of the run [^\t\n\f <&#;]{1,room} at position p
RECURSIVE NameRun(_, _, _)
NameRun(s, p, room) ==
    IF room > 0 /\ p <= Len(s)
       /\ s[p] \notin {"\t", "\n", "\f", " ", "<", "&", "#", ";"}
    THEN 1 + NameRun(s, p + 1, room - 1)
    ELSE 0

\* 1 when a semicolon stands at position p, else 0
Semicolon(s, p) == IF p <= Len(s) /\ s[p] = ";" THEN 1 ELSE 0

\* the longest x in 2..Len(w)-1 with w[:x] in the table, or 0
LongestName(w) ==
    LET xs == {x \in 2..(Len(w) - 1) : InHtml5(SubSeq(w, 1, x))}
    IN  IF xs = {} THEN 0 ELSE CHOOSE x \in xs : \A y \in xs : x >= y

\* _replace_charref for a named reference w, its longest known prefix
\* being x long
ReplaceNamed(w, x) ==
    IF InHtml5(w) THEN <<Html5Of(w)>>
    ELSE IF x # 0
         THEN <<Html5Of(SubSeq(w, 1, x))>> \o SubSeq(w, x + 1, Len(w))
    ELSE <<"&">> \o w

\* html.unescape from the & at position p; d and n are the lengths of the
\* runs of digits behind &# and of name characters behind &
RECURSIVE Unescape(_, _)
UnescapeAt(s, p, d, n) ==
    IF d > 0
    THEN <<Chr(IntOf(SubSeq(s, p + 2, p + 1 + d)))>>
         \o Unescape(s, p + 2 + d + Semicolon(s, p + 2 + d))
    ELSE IF n > 0
         THEN ReplaceNamed(SubSeq(s, p + 1, p + n + Semicolon(s, p + 1 + n)),
                           LongestName(SubSeq(s, p + 1,
                                              p + n + Semicolon(s, p + 1 + n))))
              \o Unescape(s, p + 1 + n + Semicolon(s, p + 1 + n))
    ELSE <<"&">> \o Unescape(s, p + 1)

\* the text from p on, q being the position of the first & from p on (0:
\* there is none)
UnescapeFrom(s, p, q) ==
    IF q = 0 THEN Piece(s, p, Len(s))
    ELSE Piece(s, p, q - 1)
         \o UnescapeAt(s, q,
                       IF StartsAt(s, q, <<"&", "#">>) THEN DigitRun(s, q + 2)
                       ELSE 0,
                       NameRun(s, q + 1, 32))

\* html.unescape from position p
Unescape(s, p) ==
    IF p > Len(s) THEN << >>
    ELSE UnescapeFrom(s, p, FirstOrZero({i \in p..Len(s) : s[i] = "&"}))

\* the marker behind the first 1000 characters
ShortenBehind1000(stripped) ==
    IF Len(stripped) > 1000
    THEN SubSeq(stripped, 1, 1000) \o <<".", ".", ".">>
    ELSE stripped

\* the last step of strip_text: at most 997 characters and the marker
Shorten(stripped) ==
    IF Len(stripped) > 997
    THEN SubSeq(stripped, 1, 997) \o <<".", ".", ".">>
    ELSE stripped

strip_text(text) ==
    Shorten(Unescape(SubSpaces(PyStrip(SubTags(text, 1)), 1), 1))

\* re.findall(r"<img.+?>", text)[0] searched from position p: Some(tag),
\* or PyNone when nothing matches (IndexError)
RECURSIVE FirstImgTag(_, _)
ImgTagAt(s, p, q) ==
    IF q # 0 THEN Some(SubSeq(s, p, q)) ELSE FirstImgTag(s, p + 1)

FirstImgTag(s, p) ==
    IF p > Len(s) THEN PyNone
    ELSE ImgTagAt(s, p, LazyTagEnd(s, p, <<"<", "i", "m", "g">>))

\* re.findall(r"""src=["'](.*?)["']""", img_tag)[0] searched from p
RECURSIVE FirstSrc(_, _)
SrcAt(s, p, q) ==
    IF q # 0 THEN Some(SubSeq(s, p + 5, q - 1)) ELSE FirstSrc(s, p + 1)

FirstSrc(s, p) ==
    IF p > Len(s) THEN PyNone
    ELSE SrcAt(s, p,
               IF StartsAt(s, p, <<"s", "r", "c", "=">>)
                  /\ p + 4 <= Len(s) /\ s[p + 4] \in {"\"", "'"}
               THEN LazyUntil(s, p + 5, {"\"", "'"})
               ELSE 0)

\* get_image_link(text): Some(image_link), or PyNone for IndexError
SrcOfTag(img_tag) ==
    IF img_tag = PyNone THEN PyNone ELSE FirstSrc(img_tag[1], 1)

get_image_link(text) == SrcOfTag(FirstImgTag(text, 1))

(***************************************************************************)
(* xml.etree.ElementTree: an element has a tag (namespace and local name), *)
(* attributes (pairs of name and value), a text (or None) and children     *)
(***************************************************************************)

Tag(ns, name) == [ns |-> ns, name |-> name]

Element(tag, attrib, text, children) ==
    [tag |-> tag, attrib |-> attrib, text |-> text, children |-> children]

\* the first element of a list of matches, or None
FirstOf(hits) == IF hits = << >> THEN PyNone ELSE Some(hits[1])

\* Element.findall(name): the children with that tag and no namespace
FindAll(e, name) == SelectSeq(e.children, LAMBDA c : c.tag = Tag("", name))

\* Element.find(name)
Find(e, name) == FirstOf(FindAll(e, name))

\* Element.iter(): the element and its descendants in document order
RECURSIVE Iter(_)
RECURSIVE IterAll(_, _)
IterAll(es, i) ==
    IF i > Len(es) THEN << >> ELSE Iter(es[i]) \o IterAll(es, i + 1)

Iter(e) == <<e>> \o IterAll(e.children, 1)

\* Element.iter(name)
IterTag(e, name) == SelectSeq(Iter(e), LAMBDA c : c.tag = Tag("", name))

\* Element.attrib.get(key, None)
AttribGet(e, key) ==
    IF \E a \in e.attrib : a[1] = key
    THEN Some((CHOOSE a \in e.attrib : a[1] = key)[2])
    ELSE PyNone

\* x.find(name) for the result x of a find: None stands for the
\* AttributeError that None.find raises
FindIn(x, name) == IF x = PyNone THEN PyNone ELSE Find(x[1], name)

\* "" if x is None or x.text is None else x.text, for the result x of a find
TextOrEmpty(x) ==
    IF x = PyNone THEN << >>
    ELSE IF x[1].text = PyNone THEN << >>
    ELSE x[1].text[1]

\* get_absolute_url that keeps the slash at the end of the link
AbsoluteUrlKeepSlash(url, link) ==
    IF link = PyNone THEN url
    ELSE IF link[1].text = PyNone THEN url
    ELSE link[1].text[1] \o url

\* get_absolute_url(url, channel), link being channel.find("link")
AbsoluteUrl(url, link) ==
    IF link = PyNone THEN url
    ELSE IF link[1].text = PyNone THEN url
    ELSE IF link[1].text[1][Len(link[1].text[1])] = "/"
         THEN SubSeq(link[1].text[1], 1, Len(link[1].text[1]) - 1) \o url
    ELSE link[1].text[1] \o url

get_absolute_url(url, channel) == AbsoluteUrl(url, Find(channel, "link"))

(***************************************************************************)
(* rss_reader_xml.py                                                       *)
(***************************************************************************)

Placeholder ==
    <<"h", "t", "t", "p", "s", ":", "/", "/", "w", "w", "w", ".", "r", "s",
      "s", "b", "o", "a", "r", "d", ".", "o", "r", "g", "/", "i", "m", "a",
      "g", "e", "s", "/", "r", "s", "s", "-", "m", "a", "n", "-", "g", "r",
      "a", "p", "h", "i", "c", ".", "p", "n", "g">>

\* w in s
Contains(s, w) == \E p \in 1..(Len(s) - Len(w) + 1) : StartsAt(s, p, w)

\* image is not None and image
NonEmpty(image) == image # PyNone /\ image # Some(<< >>)

\* an enclosure of any type counts as an image
QualifiesAny(enc_type) == TRUE

\* "image" in enc_type or not enc_type
Qualifies(enc_type) ==
    Contains(enc_type, <<"i", "m", "a", "g", "e">>) \/ enc_type = << >>

\* enclosure.attrib.get("type", "")
EncType(enclosure) ==
    IF AttribGet(enclosure, "type") = PyNone THEN << >>
    ELSE AttribGet(enclosure, "type")[1]

\* the loop over the enclosures from number i, image being the value
\* assigned so far
RECURSIVE EnclosureLoop(_, _, _)
EnclosureLoop(enclosures, i, image) ==
    IF i > Len(enclosures) THEN image
    ELSE IF Qualifies(EncType(enclosures[i]))
         THEN IF NonEmpty(AttribGet(enclosures[i], "url"))
              THEN AttribGet(enclosures[i], "url")
              ELSE EnclosureLoop(enclosures, i + 1,
                                 AttribGet(enclosures[i], "url"))
    ELSE EnclosureLoop(enclosures, i + 1, image)

\* get_image_link(elem.text): None for IndexError and for the TypeError
\* that a text of None raises
TextImageLink(elem) ==
    IF elem.text = PyNone THEN PyNone ELSE get_image_link(elem.text[1])

\* the loop over list(item.iter()) from element i
RECURSIVE MediaLoop(_, _, _)
MediaLoop(elems, i, image) ==
    IF i > Len(elems) THEN image
    ELSE IF elems[i].tag.name \in {"thumbnail", "content", "encoded"}
         THEN IF NonEmpty(AttribGet(elems[i], "url"))
              THEN AttribGet(elems[i], "url")
              ELSE IF TextImageLink(elems[i]) # PyNone
                   THEN TextImageLink(elems[i])
              ELSE MediaLoop(elems, i + 1, AttribGet(elems[i], "url"))
    ELSE MediaLoop(elems, i + 1, image)

\* the image the item itself gives (lines 105-129): a string, or None
ItemImage(item, desc, enclosures) ==
    IF enclosures # << >> THEN EnclosureLoop(enclosures, 1, PyNone)
    ELSE IF get_image_link(desc) # PyNone THEN get_image_link(desc)
    ELSE MediaLoop(Iter(item), 1, PyNone)

\* the image after lines 130-137: the item's own image, the text of the
\* channel's image/url, of the root's image/url, or the placeholder
FallbackImage(image, channel_url, root_url) ==
    IF NonEmpty(image) THEN image
    ELSE IF channel_url # PyNone THEN channel_url[1].text
    ELSE IF root_url # PyNone THEN root_url[1].text
    ELSE Some(Placeholder)

\* "" if x is None or x.text is None else strip_text(x.text)
StripOrEmpty(x) ==
    IF x = PyNone THEN << >>
    ELSE IF x[1].text = PyNone THEN << >>
    ELSE strip_text(x[1].text[1])

\* s.startswith("/")
IsRelative(s) == s # << >> /\ s[1] = "/"

\* lines 102-103 and 138-139
ResolveUrl(s, channel) ==
    IF IsRelative(s) THEN get_absolute_url(s, channel) ELSE s

\* lines 138-147 for an item: image.startswith raises AttributeError when
\* image is None, else the entry News n is built
NewsEntry(title, date, desc, link, image, channel) ==
    IF image = PyNone
    THEN [raised |-> TRUE, entry |-> Item(title, date, << >>, << >>, link)]
    ELSE [raised |-> FALSE,
          entry |-> Item(title, date, strip_text(desc),
                         ResolveUrl(image[1], channel), link)]

\* lines 98-137 for an item whose raw description is desc
ItemWithDesc(item, desc, channel, root) ==
    NewsEntry(StripOrEmpty(Find(item, "title")),
              StripOrEmpty(Find(item, "pubDate")),
              desc,
              ResolveUrl(StripOrEmpty(Find(item, "link")), channel),
              FallbackImage(ItemImage(item, desc, FindAll(item, "enclosure")),
                            FindIn(Find(channel, "image"), "url"),
                            FindIn(Find(root, "image"), "url")),
              channel)

\* the body of the loop for one item
ProcessItem(item, channel, root) ==
    ItemWithDesc(item, TextOrEmpty(Find(item, "description")), channel, root)

\* the loop over channel.iter("item") from item i, entries being the entries
\* News 1 .. News n built so far (len(news_dict) is their number and one
\* for the entry Channel)
RECURSIVE ItemsLoop(_, _, _, _, _, _)
ItemsStep(items, i, limit, entries, channel, root, r) ==
    IF r.raised THEN [raised |-> TRUE, News |-> entries]
    ELSE ItemsLoop(items, i + 1, limit, Append(entries, r.entry), channel, root)

ItemsLoop(items, i, limit, entries, channel, root) ==
    IF i > Len(items) THEN [raised |-> FALSE, News |-> entries]
    ELSE IF limit # PyNone /\ Len(entries) + 1 > limit[1]
         THEN [raised |-> FALSE, News |-> entries]
    ELSE ItemsStep(items, i, limit, entries, channel, root,
                   ProcessItem(items[i], channel, root))

\* what the dictionary holds when process_rss returns None or raises
NoDict ==
    [Channel |-> [Title |-> << >>, Description |-> << >>, URL |-> << >>],
     News |-> << >>]

\* lines 149-154: the result of the loop handed back
Processed(head, loop, limit) ==
    IF loop.raised
    THEN [raised |-> TRUE, none |-> FALSE, news_dict |-> NoDict,
          log |-> << >>]
    ELSE [raised |-> FALSE, none |-> FALSE,
          news_dict |-> [Channel |-> head, News |-> loop.News],
          log |-> (IF limit # PyNone /\ Len(loop.News) < limit[1]
                   THEN <<[level |-> "warning",
                           msg |-> "Limit set but fewer found",
                           limit |-> limit[1], found |-> Len(loop.News)]>>
                   ELSE << >>)
                  \o <<[level |-> "info", msg |-> "news items processed",
                        found |-> Len(loop.News)]>>]

\* process_rss without the test for a channel that has no item
ProcessChannelUnchecked(url, root, limit, channel) ==
    Processed([Title |-> StripOrEmpty(Find(channel, "title")),
               Description |-> StripOrEmpty(Find(channel, "description")),
               URL |-> url],
              ItemsLoop(IterTag(channel, "item"), 1, limit, << >>,
                        channel, root),
              limit)

\* lines 76-154, channel being the element root.find("channel") found
ProcessChannel(url, root, limit, channel) ==
    IF Find(channel, "item") = PyNone
    THEN [raised |-> FALSE, none |-> TRUE, news_dict |-> NoDict,
          log |-> <<LogError("No news found in RSS channel")>>]
    ELSE Processed([Title |-> StripOrEmpty(Find(channel, "title")),
                    Description |-> StripOrEmpty(Find(channel, "description")),
                    URL |-> url],
                   ItemsLoop(IterTag(channel, "item"), 1, limit, << >>,
                             channel, root),
                   limit)

\* process_rss(url, root, limit): the dictionary returned, None (none), or
\* the AttributeError that escapes (raised), and the records logged
process_rss(url, root, limit) ==
    IF Find(root, "channel") = PyNone
    THEN [raised |-> FALSE, none |-> TRUE, news_dict |-> NoDict,
          log |-> <<LogError("RSS channel was not found in XML document")>>]
    ELSE ProcessChannel(url, root, limit, Find(root, "channel")[1])

(***************************************************************************)
(* The feeds of the model                                                  *)
(***************************************************************************)

\* largest number of items of a feed that has several
MaxItems == 3

\* an element without attributes and children; text is None or Some(text)
Leaf(name, text) == Element(Tag("", name), {}, text, << >>)

\* the attribute key when the optional value is given
Attr(key, value) == IF value = PyNone THEN {} ELSE {<<key, value[1]>>}

Enclosure(type, url) ==
    Element(Tag("", "enclosure"), Attr("type", type) \cup Attr("url", url),
            PyNone, << >>)

\* type attributes: absent, empty, an image type, another type
EncTypes ==
    { PyNone, Some(<< >>),
      Some(<<"i", "m", "a", "g", "e", "/", "p">>),
      Some(<<"a", "u", "d", "i", "o">>) }

\* url attributes: absent, empty, absolute, root-relative
EncUrls == { PyNone, Some(<< >>), Some(<<"e", "1">>), Some(<<"/", "e">>) }

\* the enclosures of an item: none, one, or one followed by a second with
\* the url e2
EnclosureLists ==
    { << >> }
    \cup { <<Enclosure(t, u)>> : t \in EncTypes, u \in EncUrls }
    \cup { <<Enclosure(t, u), Enclosure(t2, Some(<<"e", "2">>))>> :
             t \in EncTypes, u \in EncUrls, t2 \in EncTypes }

\* the description of an item: none, plain text, text with <img src="di">
Descriptions ==
    { << >>,
      <<Leaf("description", Some(<<"d">>))>>,
      <<Leaf("description",
             Some(<<"x", "<", "i", "m", "g", " ", "s", "r", "c", "=", "\"",
                    "d", "i", "\"", ">">>))>> }

\* the media elements of an item: none, or <media:thumbnail url="th"/>
MediaLists ==
    { << >>,
      <<Element(Tag("M", "thumbnail"), {<<"url", <<"t", "h">>>>}, PyNone,
                << >>)>> }

ItemElement(children) == Element(Tag("", "item"), {}, PyNone, children)

\* items that differ in where an image may come from
ImageItems ==
    { ItemElement(<<Leaf("title", Some(<<"t", "1">>)),
                    Leaf("pubDate", Some(DateRfc2)),
                    Leaf("link", Some(<<"l", "1">>))>> \o d \o e \o m) :
        d \in Descriptions, e \in EnclosureLists, m \in MediaLists }

\* items without an image of their own: two with title, date and link, one
\* root-relative link, and one item without any child
PlainItems ==
    { ItemElement(<<Leaf("title", Some(<<"t", "1">>)),
                    Leaf("pubDate", Some(DateRfc4)),
                    Leaf("link", Some(<<"l", "1">>))>>),
      ItemElement(<<Leaf("title", Some(<<"t", "2">>)),
                    Leaf("pubDate", Some(DateRfc2)),
                    Leaf("link", Some(<<"/", "l">>))>>),
      ItemElement(<< >>) }

\* <image><url>text</url></image>
ImageElement(text) ==
    Element(Tag("", "image"), {}, PyNone, <<Leaf("url", text)>>)

\* the image of a channel or a root: none, one without a text in its url,
\* one with the text
ImageOptions(text) ==
    { << >>, <<ImageElement(PyNone)>>, <<ImageElement(Some(text))>> }

\* the link of a channel: none, one without text, h/ and h
LinkOptions ==
    { << >>,
      <<Leaf("link", PyNone)>>,
      <<Leaf("link", Some(<<"h", "/">>))>>,
      <<Leaf("link", Some(<<"h">>))>> }

ChannelElement(link, image, items) ==
    Element(Tag("", "channel"), {}, PyNone,
            <<Leaf("title", Some(<<"c", "1">>))>> \o link \o image \o items)

RootElement(channel, image) ==
    Element(Tag("", "rss"), {}, PyNone, channel \o image)

\* feeds of one item
ImageFeeds ==
    { RootElement(<<ChannelElement(l, ci, <<it>>)>>, ri) :
        l \in LinkOptions, ci \in ImageOptions(<<"c", "i">>),
        ri \in ImageOptions(<<"r", "i">>), it \in ImageItems }

\* feeds of 0..MaxItems items
ListFeeds ==
    { RootElement(<<ChannelElement(l, ci, q)>>, ri) :
        l \in LinkOptions, ci \in ImageOptions(<<"c", "i">>),
        ri \in ImageOptions(<<"r", "i">>),
        q \in SeqsUpTo(PlainItems, MaxItems) }

\* documents without a channel
NoChannelFeeds == { RootElement(<< >>, ri) : ri \in ImageOptions(<<"r", "i">>) }

\* http://example.com/
ExampleSite ==
    <<"h", "t", "t", "p", ":", "/", "/", "e",
      "x", "a", "m", "p", "l", "e", ".", "c",
      "o", "m", "/">>

\* a channel with the link http://example.com/ and an item whose link and
\* whose enclosure url are /a/b
ExampleFeed ==
    RootElement(
        <<ChannelElement(
            <<Leaf("link", Some(ExampleSite))>>, << >>,
            <<ItemElement(<<Leaf("title", Some(<<"t", "1">>)),
                            Leaf("link", Some(<<"/", "a", "/", "b">>)),
                            Enclosure(PyNone, Some(<<"/", "a", "/", "b">>))>>)
            >>)>>,
        << >>)

Feeds == ImageFeeds \cup ListFeeds \cup NoChannelFeeds \cup {ExampleFeed}

(***************************************************************************)
(* process_rss under every feed and limit                                  *)
(***************************************************************************)

\* process_rss leaves the cache file alone
ProcessOut(st, r) ==
    [st |-> st,
     ret |-> [error |-> r.raised, none |-> r.none, news_dict |-> r.news_dict],
     log |-> r.log]

Process ==
    /\ call = Idle
    /\ \E root \in Feeds, limit \in QueryLimits :
        Returns([op |-> "process_rss", url |-> UrlAUnderB, root |-> root,
                 limit |-> limit],
                ProcessOut(St, process_rss(UrlAUnderB, root, limit)))

NextRss ==
    \/ Process
    \/ Finish

SpecRss == Init /\ [][NextRss]_vars

(***************************************************************************)
(* download_xml (rss_reader_xml.py) and run (app.py)                       *)
(***************************************************************************)

\* the characters of a URL scheme (urllib.parse.scheme_chars)
SchemeChars ==
    {UpperChars[i] : i \in 1..Len(UpperChars)}
    \cup {LowerChars[i] : i \in 1..Len(LowerChars)}
    \cup {DigitChars[i] : i \in 1..Len(DigitChars)}
    \cup {"+", "-", "."}

\* the first position from p that holds one of the characters cs, or
\* Len(s) + 1
RECURSIVE FirstOfChars(_, _, _)
FirstOfChars(s, p, cs) ==
    IF p > Len(s) \/ s[p] \in cs THEN p ELSE FirstOfChars(s, p + 1, cs)

\* urlsplit(url): the length of the scheme of url, whose first colon is at
\* position i (0: no scheme)
SchemeLen(url, i) ==
    IF /\ i > 1 /\ i <= Len(url)
       /\ url[1] \in SchemeChars \ ({DigitChars[k] : k \in 1..10}
                                     \cup {"+", "-", "."})
       /\ \A k \in 1..(i - 1) : url[k] \in SchemeChars
    THEN i - 1
    ELSE 0

\* urlsplit(url).netloc, n being the length of the scheme
NetlocBehind(url, n) ==
    IF StartsAt(url, IF n = 0 THEN 1 ELSE n + 2, <<"/", "/">>)
    THEN SubSeq(url, (IF n = 0 THEN 1 ELSE n + 2) + 2,
                FirstOfChars(url, (IF n = 0 THEN 1 ELSE n + 2) + 2,
                             {"/", "?", "#"}) - 1)
    ELSE << >>

\* characters outside ASCII: the Cyrillic letters of "кто" and "рф"
NonAscii == {"U+043A", "U+0442", "U+043E", "U+0440", "U+0444"}

\* str.isascii()
IsAscii(s) == \A i \in 1..Len(s) : s[i] \notin NonAscii

\* s.split(".") from position p on
RECURSIVE SplitDots(_, _)
SplitDots(s, p) ==
    IF FirstOfChars(s, p, {"."}) > Len(s)
    THEN <<Piece(s, p, Len(s))>>
    ELSE <<Piece(s, p, FirstOfChars(s, p, {"."}) - 1)>>
         \o SplitDots(s, FirstOfChars(s, p, {"."}) + 1)

\* the labels the idna codec encodes: an empty last label (a trailing dot)
\* is left out
IdnaLabels(labels) ==
    IF labels[Len(labels)] = << >>
    THEN SubSeq(labels, 1, Len(labels) - 1)
    ELSE labels

\* encodings.idna.ToASCII(label) raises UnicodeError("label empty or too
\* long"); the labels outside ASCII of the model are a few Cyrillic letters,
\* which nameprep accepts and punycode keeps short
LabelFails(label) == Len(label) = 0 \/ (IsAscii(label) /\ Len(label) >= 64)

\* lines 40-42: netloc.encode("idna") raises UnicodeError
IdnaFails(netloc) ==
    \E i \in 1..Len(IdnaLabels(SplitDots(netloc, 1))) :
        LabelFails(IdnaLabels(SplitDots(netloc, 1))[i])

\* the schemes urlopen opens over HTTP (the URLs of the model have these
\* schemes or one that no handler of urllib knows)
HttpSchemes == {<<"h", "t", "t", "p">>, <<"h", "t", "t", "p", "s">>}

\* http.client raises InvalidURL("nonnumeric port"): the text behind the
\* last colon of the host, p being the position of that colon (0: none)
NonNumericPort(host, p) ==
    /\ p > 0
    /\ \E i \in (p + 1)..Len(host) : ~IsDigit(host[i])

\* lines 47-49 for an http or https URL, p being the position of the last
\* colon of the host (0: none): http.client splits the port off, the socket
\* module encodes the host name with the idna codec, the request is sent,
\* response.read() and ET.fromstring follow; response is what the network
\* answers
HttpOpened(host, p, response) ==
    IF NonNumericPort(host, p)
    THEN [root |-> PyNone, raised |-> "InvalidURL", requests |-> << >>,
          log |-> << >>]
    ELSE IF IdnaFails(IF p > 0 THEN Piece(host, 1, p - 1) ELSE host)
    THEN [root |-> PyNone, raised |-> "UnicodeError", requests |-> << >>,
          log |-> << >>]
    ELSE IF response.kind = "HTTPError"
    THEN [root |-> PyNone, raised |-> "", requests |-> <<host>>,
          log |-> <<LogError("Download of URL failed")>>]
    ELSE IF response.kind = "URLError"
    THEN [root |-> PyNone, raised |-> "", requests |-> <<host>>,
          log |-> <<LogError("Unable to open URL")>>]
    ELSE IF response.kind \in {"RemoteDisconnected", "IncompleteRead"}
    THEN [root |-> PyNone, raised |-> response.kind, requests |-> <<host>>,
          log |-> << >>]
    ELSE IF response.kind = "ParseError"
    THEN [root |-> PyNone, raised |-> "", requests |-> <<host>>,
          log |-> <<LogError("URL does not have valid XML data")>>]
    ELSE [root |-> Some(response.root), raised |-> "",
          requests |-> <<host>>, log |-> << >>]

\* lines 44-56: the try statement, whose except clauses catch HTTPError,
\* URLError and ParseError and nothing else; urlopen raises URLError
\* ("unknown url type") for a scheme it has no handler for
Opened(scheme, host, response) ==
    IF scheme \notin HttpSchemes
    THEN [root |-> PyNone, raised |-> "", requests |-> << >>,
          log |-> <<LogError("Unable to open URL")>>]
    ELSE HttpOpened(host,
                    FirstOrZero({i \in 1..Len(host) :
                                   /\ host[i] = ":"
                                   /\ \A k \in (i + 1)..Len(host) :
                                         host[k] # ":"}),
                    response)

\* download_xml without the checks of lines 34-37
DownloadedUnchecked(url, n, response) ==
    Opened(SubSeq(url, 1, n), NetlocBehind(url, n), response)

\* download_xml for a URL whose scheme is n long: the document or None,
\* the exception that leaves the function ("": none), the hosts a request
\* went to, and the errors logged
Downloaded(url, n, response) ==
    IF n = 0
    THEN [root |-> PyNone, raised |-> "", requests |-> << >>,
          log |-> <<LogError("Invalid URL: no scheme supplied")>>]
    ELSE IF NetlocBehind(url, n) = << >>
    THEN [root |-> PyNone, raised |-> "", requests |-> << >>,
          log |-> <<LogError("Invalid URL: no host supplied")>>]
    ELSE IF ~IsAscii(url) /\ IdnaFails(NetlocBehind(url, n))
    THEN [root |-> PyNone, raised |-> "UnicodeError", requests |-> << >>,
          log |-> << >>]
    ELSE Opened(SubSeq(url, 1, n), NetlocBehind(url, n), response)

download_xml(url, response) ==
    Downloaded(url, SchemeLen(url, FirstOfChars(url, 1, {":"})), response)

\* what run() has done so far: the records logged and printed, the
\* functions of the package it called, and the hosts a request went to
NothingDone == [log |-> << >>, calls |-> << >>, requests |-> << >>]

\* run() called the function name, which logged and requested this
Did(done, name, logged, requests) ==
    [log |-> done.log \o logged, calls |-> Append(done.calls, name),
     requests |-> done.requests \o requests]

\* what run() leaves when it ends: the cache file, how it ended, what
\* process_rss, store_to_sql and retrieve_from_sql returned to it, the
\* functions it called, the requests sent, and the records logged and
\* printed
RunEnd(st, outcome, error, rss, store, retrieved, done) ==
    [st |-> st,
     ret |-> [error |-> error, outcome |-> outcome, rss |-> rss,
              store |-> store, retrieved |-> retrieved,
              calls |-> done.calls, requests |-> done.requests],
     log |-> done.log]

\* process_rss was not called
NoRss == [raised |-> FALSE, none |-> TRUE, news_dict |-> NoDict]

\* store_to_sql was not called
NoStore ==
    [error |-> FALSE, changes |-> 0, existing |-> 0, rolled_back |-> 0]

\* lines 177-186: the dictionary is printed (the files of --to-html and
\* --to-pdf are written by rss_reader_files.py)
Printed == [level |-> "print", msg |-> "news"]

WithPrinted(done) == [done EXCEPT !.log = @ \o <<Printed>>]

\* line 176 and the end of run(), s being what store_to_sql did
RunStored(p, s, done) ==
    RunEnd(s.st, "printed", s.ret.error,
           [raised |-> FALSE, none |-> FALSE, news_dict |-> p.news_dict],
           s.ret, << >>,
           WithPrinted(Did(done, "store_to_sql", s.log, << >>)))

\* run() that goes on to print when process_rss returned None
RunProcessedPrinting(st, p, done) ==
    IF p.raised
    THEN RunEnd(st, "raised", TRUE,
                [raised |-> TRUE, none |-> FALSE, news_dict |-> NoDict],
                NoStore, << >>, Did(done, "process_rss", p.log, << >>))
    ELSE IF p.none
    THEN RunEnd(st, "no news", FALSE, NoRss, NoStore, << >>,
                WithPrinted(Did(done, "process_rss", p.log, << >>)))
    ELSE RunStored(p, store_to_sql(st, p.news_dict),
                   Did(done, "process_rss", p.log, << >>))

\* lines 173-176, p being what process_rss did
RunProcessed(st, p, done) ==
    IF p.raised
    THEN RunEnd(st, "raised", TRUE,
                [raised |-> TRUE, none |-> FALSE, news_dict |-> NoDict],
                NoStore, << >>, Did(done, "process_rss", p.log, << >>))
    ELSE IF p.none
    THEN RunEnd(st, "no news", FALSE, NoRss, NoStore, << >>,
                Did(done, "process_rss", p.log, << >>))
    ELSE RunStored(p, store_to_sql(st, p.news_dict),
                   Did(done, "process_rss", p.log, << >>))

\* lines 170-176, d being what download_xml did
RunDownloaded(st, args, d, done) ==
    IF d.raised # ""
    THEN RunEnd(st, "raised", TRUE, NoRss, NoStore, << >>,
                Did(done, "download_xml", d.log, d.requests))
    ELSE IF d.root = PyNone
    THEN RunEnd(st, "no document", FALSE, NoRss, NoStore, << >>,
                Did(done, "download_xml", d.log, d.requests))
    ELSE RunProcessed(st, process_rss(args.source[1], d.root[1], args.limit),
                      Did(done, "download_xml", d.log, d.requests))

\* lines 166-168 and the end of run(), r being what retrieve_from_sql did
RunRetrieved(r, done) ==
    IF r.ret.none
    THEN RunEnd(r.st, "nothing retrieved", r.ret.error, NoRss, NoStore,
                << >>, Did(done, "retrieve_from_sql", r.log, << >>))
    ELSE RunEnd(r.st, "printed", FALSE, NoRss, NoStore, r.ret.news_dict,
                WithPrinted(Did(done, "retrieve_from_sql", r.log, << >>)))

\* lines 163-164, c being what clean_cache did
RunCleaned(c, done) ==
    RunEnd(c.st, "cleaned", c.ret.error, NoRss, NoStore, << >>,
           Did(done, "clean_cache", c.log, << >>))

\* run() that looks at the source before the date
RunWithCacheSourceFirst(st, args, response, consent, done) ==
    IF args.clean
    THEN { RunCleaned(clean_cache(st, FALSE, consent), done) }
    ELSE IF args.source # PyNone
    THEN { RunDownloaded(st, args, download_xml(args.source[1], response),
                         done) }
    ELSE { RunRetrieved(r, done) :
             r \in retrieve_from_sql(st, args.date[1], args.source,
                                     args.limit) }

\* lines 162-186 of run() on the cache file st.  app.py calls clean_cache
\* and config_logging without the colorize argument: clean_cache prints
\* without colors, and config_logging has no part in what run() does to
\* the cache file.
RunWithCache(st, args, response, consent, done) ==
    IF args.clean
    THEN { RunCleaned(clean_cache(st, FALSE, consent), done) }
    ELSE IF args.date # PyNone
    THEN { RunRetrieved(r, done) :
             r \in retrieve_from_sql(st, args.date[1], args.source,
                                     args.limit) }
    ELSE { RunDownloaded(st, args, download_xml(args.source[1], response),
                         done) }

\* lines 159-161, c being what create_sql_table did
RunCreated(c, args, response, consent) ==
    IF ~c.ret.value
    THEN { RunEnd(c.st, "no cache file", TRUE, NoRss, NoStore, << >>,
                  Did(NothingDone, "create_sql_table", c.log, << >>)) }
    ELSE RunWithCache(c.st, args, response, consent,
                      Did(NothingDone, "create_sql_table", c.log, << >>))

\* run() for the arguments args that parse_args accepted: the ways it may
\* end
run(st, args, response, consent) ==
    IF st.cacheFile = "absent"
    THEN RunCreated(create_sql_table(st), args, response, consent)
    ELSE RunWithCache(st, args, response, consent, NothingDone)

\* the feeds run() downloads: 0..MaxItems items without images of their
\* own under a channel without a link, with or without a channel image
\* that has no text, and a document without a channel
RunFeeds ==
    { RootElement(<<ChannelElement(<< >>, ci, q)>>, << >>) :
        ci \in {<< >>, <<ImageElement(PyNone)>>},
        q \in SeqsUpTo(PlainItems, MaxItems) }
    \cup { RootElement(<< >>, << >>) }

\* what the network answers
Responses ==
    { [kind |-> k, root |-> RootElement(<< >>, << >>)] :
        k \in {"HTTPError", "URLError", "ParseError", "RemoteDisconnected",
               "IncompleteRead"} }
    \cup { [kind |-> "xml", root |-> f] : f \in RunFeeds }

\* a source without a scheme and one without a host
UrlNoScheme == <<"h", "/", "a">>

UrlNoHost == <<"h", "t", "t", "p", ":", "h">>

\* "//h/a": a host and no scheme
UrlHostOnly == <<"/", "/", "h", "/", "a">>

\* "http:/кто": no host, and a path outside ASCII
UrlNoHostCyrillic ==
    <<"h", "t", "t", "p", ":", "/", "U+043A", "U+0442", "U+043E">>

\* "http://кто.рф"
UrlCyrillic ==
    <<"h", "t", "t", "p", ":", "/", "/", "U+043A", "U+0442", "U+043E", ".",
      "U+0440", "U+0444">>

\* "http://кто..рф": an empty label in a host outside ASCII
UrlEmptyLabel ==
    <<"h", "t", "t", "p", ":", "/", "/", "U+043A", "U+0442", "U+043E", ".",
      ".", "U+0440", "U+0444">>

\* "http://h..h/a": an empty label in an ASCII host
UrlEmptyAsciiLabel ==
    <<"h", "t", "t", "p", ":", "/", "/", "h", ".", ".", "h", "/", "a">>

\* "http://h./a": a trailing dot
UrlTrailingDot == <<"h", "t", "t", "p", ":", "/", "/", "h", ".", "/", "a">>

\* "http://h:p/"
UrlBadPort == <<"h", "t", "t", "p", ":", "/", "/", "h", ":", "p", "/">>

\* "https://h:80/a"
UrlPort ==
    <<"h", "t", "t", "p", "s", ":", "/", "/", "h", ":", "8", "0", "/", "a">>

\* "htt://h/"
UrlUnknownScheme == <<"h", "t", "t", ":", "/", "/", "h", "/">>

Urls ==
    {UrlAUnderB, UrlNoScheme, UrlNoHost, UrlHostOnly, UrlNoHostCyrillic,
     UrlCyrillic, UrlEmptyLabel, UrlEmptyAsciiLabel, UrlTrailingDot,
     UrlBadPort, UrlPort, UrlUnknownScheme}

\* what the network answers to download_xml called on its own
FewResponses ==
    { [kind |-> k, root |-> RootElement(<< >>, << >>)] :
        k \in {"HTTPError", "URLError", "ParseError", "RemoteDisconnected",
               "IncompleteRead", "xml"} }

Args(source, limit, date, clean) ==
    [source |-> source, limit |-> limit, date |-> date, clean |-> clean]

\* the invocations of the program: --clean with what the user answers, a
\* --date query, and a source with what the network answers (no network and
\* no prompt are needed otherwise)
Invocations ==
    { [args |-> Args(PyNone, PyNone, PyNone, TRUE),
       response |-> [kind |-> "URLError", root |-> RootElement(<< >>, << >>)],
       consent |-> a] : a \in Consents }
    \cup { [args |-> Args(s, l, Some(d), FALSE),
            response |-> [kind |-> "URLError",
                          root |-> RootElement(<< >>, << >>)],
            consent |-> << >>] :
             s \in QuerySources, l \in QueryLimits, d \in QueryDates }
    \cup { [args |-> Args(Some(UrlAUnderB), PyNone, d, TRUE),
            response |-> r, consent |-> a] :
             d \in {PyNone} \cup {Some(q) : q \in QueryDates},
             r \in {x \in FewResponses : x.kind \in {"URLError", "xml"}},
             a \in Consents }
    \cup { [args |-> Args(Some(UrlAUnderB), PyNone, Some(d), FALSE),
            response |-> r, consent |-> << >>] :
             d \in QueryDates, r \in FewResponses }
    \cup { [args |-> Args(Some(UrlAUnderB), l, PyNone, FALSE),
            response |-> r, consent |-> << >>] :
             l \in QueryLimits, r \in Responses }
    \cup { [args |-> Args(Some(u), PyNone, PyNone, FALSE),
            response |-> [kind |-> "xml",
                          root |-> RootElement(<< >>, << >>)],
            consent |-> << >>] :
             u \in Urls \ {UrlAUnderB} }

\* the program is invoked, or invoked once more in the same way
Run ==
    \/ /\ call = Idle
       /\ \E i \in Invocations :
            \E out \in run(St, i.args, i.response, i.consent) :
                Returns([op |-> "run", args |-> i.args,
                         response |-> i.response, consent |-> i.consent],
                        out)
    \/ /\ call.op = "run"
       /\ \E out \in run(St, call.args, call.response, call.consent) :
            Returns(call, out)

\* what download_xml hands back
DownloadOut(st, d) ==
    [st |-> st,
     ret |-> [error |-> d.raised # "", root |-> d.root, raised |-> d.raised,
              requests |-> d.requests],
     log |-> d.log]

\* download_xml is called on its own
Download ==
    /\ call = Idle
    /\ \E u \in Urls, r \in FewResponses :
         Returns([op |-> "download_xml", url |-> u, response |-> r],
                 DownloadOut(St, download_xml(u, r)))

NextRun ==
    \/ Run
    \/ Download
    \/ SetAccessible
    \/ Finish

SpecRun == Init /\ [][NextRun]_vars

(***************************************************************************)
(* The functions of rss_reader_dates.py and rss_reader_text.py under every *)
(* input of the model                                                      *)
(***************************************************************************)

\* titles of news items
Titles == { <<"t", "1">>, <<"t", "2">>, << >> }

\* the record of the warning parse_date logs for the item titled title
DateWarning(title) ==
    [level |-> "warning", msg |-> "wrong date", title |-> title]

\* parse_date leaves the cache file alone
ParseDateOut(st, r) ==
    [st |-> st,
     ret |-> [error |-> FALSE, date_as_date |-> r.date_as_date],
     log |-> [k \in 1..Len(r.warnings) |-> DateWarning(r.warnings[k])]]

\* a text with markup, an entity for a space, a run of spaces, a newline,
\* an entity for < and spaces at both ends
MarkedUpText ==
    <<" ", " ", "<", "p", ">", "P", "y", "t",
      "h", "o", "n", "&", "n", "b", "s", "p",
      ";", "i", "s", " ", " ", "e", "a", "s",
      "y", "\n", "t", "o", " ", "l", "e", "a",
      "r", "n", "&", "l", "t", ";", " ", "i",
      "t", "<", "/", "p", ">", " ", " ">>

\* further short texts, each with what it is about
ShortTexts ==
    {
      \* plain text
      <<"a", " ", "b">>,
      \* a run of tabs and a carriage return before a newline
      <<"a", "\t", "\t", "b", "\r", "\n", "c">>,
      \* a tag within a tag
      <<"<", "<", "a", ">", "b">>,
      \* quotes and an ampersand as entities
      <<"&", "q", "u", "o", "t", ";", "a", "&",
        "a", "m", "p", ";", "b", "&", "q", "u",
        "o", "t", ";">>,
      \* an entity for a space between spaces
      <<"a", " ", "&", "n", "b", "s", "p", ";",
        " ", "b">>,
      \* an entity for a space at the start
      <<"&", "n", "b", "s", "p", ";", "a">>,
      \* an escaped entity for a space
      <<"&", "a", "m", "p", ";", "n", "b", "s",
        "p", ";">>,
      \* a numeric reference to a newline
      <<"a", "&", "#", "1", "0", ";", "b">>,
      \* a tag that holds a newline
      <<"a", "<", "b", "\n", "c", ">", "d">>,
      \* an escaped tag
      <<"&", "l", "t", ";", "p", "&", "g", "t",
        ";">>,
      \* a tag between spaces at the end
      <<"a", " ", "<", "b", "r", ">">>
    }

\* a plain text of n characters
PlainText(n) == [i \in 1..n |-> "a"]

\* lengths of plain texts: about the 997 characters that strip_text keeps,
\* and 1500
TextLengths == {0, 1, 996, 997, 998, 999, 1000, 1001, 1500}

\* long texts whose length changes in the cleaning
LongTexts ==
    { \* 1007 characters, 1000 without the tags
      <<"<", "p", ">">> \o PlainText(1000) \o <<"<", "/", "p", ">">>,
      \* 998 characters, 995 without the tag
      <<"<", "p", ">">> \o PlainText(995),
      \* 1003 characters, 1000 decoded; the decoded < is the last one kept
      PlainText(996) \o <<"&", "l", "t", ";", "b", "c", "d">>,
      \* 1000 characters, 996 decoded
      PlainText(994) \o <<"&", "a", "m", "p", ";", "b">>,
      \* 1003 characters, 1000 with the run of spaces as one space, which is
      \* the last character kept
      PlainText(996) \o <<" ", " ", " ", " ", "b", "c", "d">> }

Texts ==
    {MarkedUpText} \cup ShortTexts \cup LongTexts
    \cup {PlainText(n) : n \in TextLengths}

\* strip_text leaves the cache file alone and logs nothing
StripTextOut(st, stripped) ==
    [st |-> st, ret |-> [error |-> FALSE, stripped |-> stripped],
     log |-> << >>]

StripText ==
    /\ call = Idle
    /\ \E text \in Texts :
        Returns([op |-> "strip_text", text |-> text],
                StripTextOut(St, strip_text(text)))

ParseDate ==
    /\ call = Idle
    /\ \E date \in RawDates, title \in Titles :
        Returns([op |-> "parse_date", date |-> date, title |-> title],
                ParseDateOut(St, parse_date(date, title)))

NextText ==
    \/ ParseDate
    \/ StripText
    \/ Finish

SpecText == Init /\ [][NextText]_vars

(***************************************************************************)
(* Properties of the cache store                                           *)
(***************************************************************************)

\* store_to_sql has just ended without a store error
StoreDone == call.op = "store_to_sql" /\ ~ret.error

\* retrieve_from_sql has just ended without a store error
RetrieveDone == call.op = "retrieve_from_sql" /\ ~ret.error

\* the connection of the last store_to_sql after its first i items
ConAfter(i) ==
    StoreLoop([news |-> pre.news, seq |-> pre.seq, total_changes |-> 0],
              call.news_dict.Channel.Title, call.news_dict.Channel.URL,
              SubSeq(call.news_dict.News, 1, i), 1)

RowOf(rows, link) == rows[CHOOSE k \in 1..Len(rows) : rows[k].link = link]

Stored(rows, link) == \E k \in 1..Len(rows) : rows[k].link = link

\* an incoming item differs from a row in a mutable field the code compares
Differs(row, item) ==
    \/ row.title # item.Title
    \/ row.date # item.Date
    \/ row.desc # item.Description
    \/ row.image # item.Image

\* C1: no two records of the store have the same link, and after a store
\* every item of the batch is held in exactly one record, also items that
\* share a link or have the empty link
C1_UniqueLinks ==
    /\ \A i, j \in 1..Len(news) : i # j => news[i].link # news[j].link
    /\ StoreDone =>
         \A i \in 1..Len(call.news_dict.News) :
            Cardinality({k \in 1..Len(news) :
                           news[k].link = call.news_dict.News[i].Link}) = 1

\* a batch of two different items with the empty link, stored on top of a
\* record with the empty link, left a single record with the empty link
C1_Witness ==
    /\ StoreDone
    /\ Len(call.news_dict.News) = 2
    /\ call.news_dict.News[1].Link = << >>
    /\ call.news_dict.News[2].Link = << >>
    /\ call.news_dict.News[1] # call.news_dict.News[2]
    /\ Stored(pre.news, << >>)
    /\ Cardinality({k \in 1..Len(news) : news[k].link = << >>}) = 1

\* C2 (as claimed): a store_to_sql that repeats the call before it with the
\* same batch reports changed = 0 and unchanged = size of the batch, and
\* leaves every record as it was
C2_ReingestNoActivity ==
    (again /\ StoreDone) =>
        /\ ret.changes = 0
        /\ ret.existing = Len(call.news_dict.News)
        /\ news = pre.news

\* C3: an item whose link is stored and that differs from the stored row in
\* title, date, description or image is counted as a change, overwrites the
\* row's title, date, date_as_date, description and image, and adds no row
C3_ChangedOverwrites ==
    StoreDone =>
      /\ ConAfter(Len(call.news_dict.News)).news = news
      /\ ConAfter(Len(call.news_dict.News)).total_changes = ret.changes
      /\ \A i \in 1..Len(call.news_dict.News) :
           LET item   == call.news_dict.News[i]
               before == ConAfter(i - 1)
               after  == ConAfter(i)
           IN  (Stored(before.news, item.Link)
                /\ Differs(RowOf(before.news, item.Link), item))
               => /\ after.total_changes = before.total_changes + 1
                  /\ Len(after.news) = Len(before.news)
                  /\ RowOf(after.news, item.Link).title = item.Title
                  /\ RowOf(after.news, item.Link).date = item.Date
                  /\ RowOf(after.news, item.Link).date_as_date
                       = parse_date(item.Date, item.Title).date_as_date
                  /\ RowOf(after.news, item.Link).desc = item.Description
                  /\ RowOf(after.news, item.Link).image = item.Image

\* a single item replaced the image, and only the image, of a stored row
C3_Witness ==
    /\ StoreDone
    /\ Len(call.news_dict.News) = 1
    /\ Stored(pre.news, call.news_dict.News[1].Link)
    /\ LET item == call.news_dict.News[1]
           old  == RowOf(pre.news, item.Link)
       IN  /\ old.image # item.Image
           /\ old.title = item.Title
           /\ old.date = item.Date
           /\ old.desc = item.Description
           /\ RowOf(news, item.Link).image = item.Image
    /\ ret.changes = 1
    /\ Len(news) = Len(pre.news)

\* the counts got by comparing each item, in batch order, with what is
\* stored under its link when the item is processed; known is the set of
\* [link, title, date, desc, image] stored so far
RECURSIVE CompareCounts(_, _, _, _)
CompareCounts(known, items, i, counts) ==
    IF i > Len(items) THEN counts
    ELSE LET item == items[i]
             mine == [link |-> item.Link, title |-> item.Title,
                      date |-> item.Date, desc |-> item.Description,
                      image |-> item.Image]
             old  == {r \in known : r.link = item.Link}
         IN  IF mine \in known
             THEN CompareCounts(known, items, i + 1,
                                [counts EXCEPT !.unchanged = @ + 1])
             ELSE CompareCounts((known \ old) \cup {mine}, items, i + 1,
                                [counts EXCEPT !.changed = @ + 1])

KnownOf(rows) ==
    { [link |-> rows[k].link, title |-> rows[k].title, date |-> rows[k].date,
       desc |-> rows[k].desc, image |-> rows[k].image] : k \in 1..Len(rows) }

\* C4: the counts store_to_sql derives from total_changes equal the counts
\* of the item-by-item comparison; they add up to the size of the batch
C4_CountsAgree ==
    StoreDone =>
      LET n == Len(call.news_dict.News)
          c == CompareCounts(KnownOf(pre.news), call.news_dict.News, 1,
                             [changed |-> 0, unchanged |-> 0])
      IN  /\ ret.changes = c.changed
          /\ ret.existing = c.unchanged
          /\ ret.changes + ret.existing = n
          /\ ret.changes >= 0
          /\ ret.changes <= n

\* a batch of two items with one link: the first was inserted, the second
\* found it unchanged
C4_Witness ==
    /\ StoreDone
    /\ Len(call.news_dict.News) = 2
    /\ call.news_dict.News[1].Link = call.news_dict.News[2].Link
    /\ ~Stored(pre.news, call.news_dict.News[1].Link)
    /\ ret.changes = 1
    /\ ret.existing = 1

\* the calendar day a --date value names
DayOf(date) ==
    <<IntOf(SubSeq(date, 1, 4)), IntOf(SubSeq(date, 5, 6)),
      IntOf(SubSeq(date, 7, 8))>>

\* the day of a timestamp on a common scale, and its second of the day
DayKey(ts) == (ts[1] * 12 + ts[2]) * 31 + ts[3]

SecondKey(ts) == (ts[4] * 60 + ts[5]) * 60 + ts[6]

\* timestamp a is not earlier than timestamp b
NotEarlier(a, b) ==
    \/ DayKey(a) > DayKey(b)
    \/ (DayKey(a) = DayKey(b) /\ SecondKey(a) >= SecondKey(b))

\* the rows of news a query for (date, source) is after: dated on the day,
\* of a channel whose URL the source pattern matches
Wanted(date, source) ==
    {k \in 1..Len(news) :
        /\ <<news[k].date_as_date[1], news[k].date_as_date[2],
             news[k].date_as_date[3]>> = DayOf(date)
        /\ (source = PyNone \/ LikeFrom(source[1], 1, news[k].url, 1))}

\* C5: retrieve_from_sql returns the first limit (all, without a limit) of
\* the wanted rows in descending order of date_as_date, as News 1..n: every
\* entry is a wanted row, no row appears twice, no later row is left out
C5_QueryResult ==
    RetrieveDone =>
      LET want == Wanted(call.date, call.source)
          res  == ret.news_dict
          n    == Len(res)
      IN  /\ n = IF call.limit = PyNone THEN Cardinality(want)
                 ELSE Min(call.limit[1], Cardinality(want))
          /\ \E f \in [1..n -> want] :
               /\ \A i, j \in 1..n : i # j => f[i] # f[j]
               /\ \A i \in 1..n : res[i] = ResultEntry(news[f[i]])
               /\ \A i, j \in 1..n :
                    i < j => NotEarlier(news[f[i]].date_as_date,
                                        news[f[j]].date_as_date)
               /\ \A k \in want :
                    (\A i \in 1..n : f[i] # k)
                    => \A i \in 1..n : NotEarlier(news[f[i]].date_as_date,
                                                  news[k].date_as_date)

\* a limit of 1 cut a day with two records at different times down to the
\* later one, while the store also holds a record of another day
C5_Witness ==
    /\ RetrieveDone
    /\ call.limit = Some(1)
    /\ Cardinality(Wanted(call.date, call.source)) = 2
    /\ Len(news) = 2
    /\ news[1].date_as_date[4] < news[2].date_as_date[4]
    /\ Len(ret.news_dict) = 1
    /\ ret.news_dict[1].Link = news[2].link

\* C6 (as claimed): with a source, every returned record's channel URL is
\* that source
C6_SourceExact ==
    (RetrieveDone /\ call.source # PyNone) =>
        \A i \in 1..Len(ret.news_dict) :
            ret.news_dict[i].Channel_URL = call.source[1]

\* C7 (as claimed): a query that matches no row returns an empty sequence
\* and logs no error
C7_ZeroRowsNoError ==
    (RetrieveDone /\ Wanted(call.date, call.source) = {}) =>
        /\ ~ret.none
        /\ ret.news_dict = << >>
        /\ \A i \in 1..Len(log) : log[i].level # "error"

\* C7 (amended): a query that matches no row returns None and logs one
\* error, "No information found in cache"; a query on an unreachable store
\* returns None too and logs one error, "Unable to retrieve info from cache
\* file": the two differ in the logged message only
C7_ZeroRowsReported ==
    call.op = "retrieve_from_sql" =>
      /\ (~ret.error /\ Wanted(call.date, call.source) = {}) =>
            /\ ret.none
            /\ Len(log) = 1
            /\ log[1].level = "error"
            /\ log[1].msg = "No information found in cache"
      /\ ret.error =>
            /\ ret.none
            /\ Len(log) = 1
            /\ log[1].level = "error"
            /\ log[1].msg = "Unable to retrieve info from cache file"
      /\ (~ret.error /\ Wanted(call.date, call.source) # {}) => ~ret.none

\* a query found nothing for its date in a store that holds records
C7_Witness ==
    /\ RetrieveDone
    /\ Len(news) > 0
    /\ Wanted(call.date, call.source) = {}
    /\ ret.none

\* clean_cache has just been called; the answers that confirm
CleanDone == call.op = "clean_cache"

Confirming == {<<"y">>, <<"Y">>}

\* no query finds a record: retrieve_from_sql returns None for every date
\* and source
NothingFound ==
    \A d \in QueryDates, s \in QuerySources :
        \A out \in retrieve_from_sql(St, d, s, PyNone) : out.ret.none

\* C21 (as claimed): after every call of clean_cache that ends without a
\* store error the store holds zero records and a following query for any
\* date and source finds nothing
C21_CleanLeavesNothing ==
    (CleanDone /\ ~ret.error) => (news = << >> /\ NothingFound)

\* C21 (amended): after every call of clean_cache in which the user
\* confirmed with "y" or "Y" and that ends without a store error, the store
\* holds zero records and a following query for any date and source finds
\* nothing; a call in which the user did not confirm ends without a store
\* error too and deletes nothing
C21_ConfirmedCleanLeavesNothing ==
    /\ (CleanDone /\ ~ret.error /\ call.consent \in Confirming)
       => (news = << >> /\ NothingFound)
    /\ (CleanDone /\ call.consent \notin Confirming)
       => (~ret.error /\ news = pre.news)

\* a confirmed clean emptied a store that held two records
C21_Witness ==
    /\ CleanDone
    /\ ~ret.error
    /\ call.consent = <<"y">>
    /\ Len(pre.news) = 2
    /\ news = << >>
    /\ NothingFound

\* create_sql_table has just been called
CreateDone == call.op = "create_sql_table"

\* C23 (as claimed): create_sql_table is idempotent: a call on an
\* accessible cache file that holds the table (a second call among them)
\* returns True, logs no error and leaves the table and its records as they
\* were
C23_CreateIdempotent ==
    (CreateDone /\ accessible /\ cacheFile = "table") =>
        /\ ret.value
        /\ ~ret.error
        /\ \A i \in 1..Len(log) : log[i].level # "error"
        /\ news = pre.news
        /\ seq = pre.seq

\* C30: clean_cache deletes the records only when the answer is "y" or
\* "Y": for every other answer the records and the ids handed out are left
\* exactly as they were, no store error occurs, and the cancellation is
\* logged and printed; records are gone after a call only if the answer
\* was "y" or "Y"
C30_DeleteOnlyOnConsent ==
    CleanDone =>
        /\ call.consent \notin Confirming =>
              /\ news = pre.news
              /\ seq = pre.seq
              /\ ~ret.error
              /\ log = <<CleanRequested,
                         [level |-> "warning",
                          msg |-> "Operation cancelled by user"],
                         [level |-> "print", colorize |-> call.colorize,
                          msg |-> "Operation cancelled"]>>
        /\ news # pre.news => call.consent \in Confirming

\* the answer "yes" left a store with records as it was
C30_Witness ==
    /\ CleanDone
    /\ call.consent = <<"y", "e", "s">>
    /\ pre.news # << >>
    /\ news = pre.news
    /\ log[Len(log)].msg = "Operation cancelled"

\* a record of before the last call is gone: no row has its id and link
Removed(row) ==
    \A k \in 1..Len(news) : news[k].id # row.id \/ news[k].link # row.link

\* C22: the cache follows Absent -EnsureSchema-> Empty -Upsert-> Populated
\* -Clean-> Empty and Populated -Upsert-> Populated.  Records exist only in
\* a cache file that holds the table; create_sql_table leaves the table
\* empty when it creates it; a record once stored stays, under its id and
\* link, through every create_sql_table, store_to_sql and retrieve_from_sql;
\* clean_cache removes all records or none, and removes them only when
\* confirmed; a store_to_sql that ends without a store error leaves the
\* store populated.
C22_CacheStateMachine ==
    /\ cacheFile # "table" => news = << >>
    /\ (CreateDone /\ ~ret.error) => (cacheFile = "table" /\ news = << >>)
    /\ call.op \in {"create_sql_table", "store_to_sql", "retrieve_from_sql"}
       => \A k \in 1..Len(pre.news) : ~Removed(pre.news[k])
    /\ call.op \in {"create_sql_table", "retrieve_from_sql"}
       => news = pre.news
    /\ CleanDone => (news = pre.news \/ news = << >>)
    /\ StoreDone => (cacheFile = "table" /\ news # << >>)

\* a store on a populated store updated a record in place and added one
C22_Witness ==
    /\ StoreDone
    /\ Len(pre.news) = 1
    /\ Len(news) = 2
    /\ news[1] # pre.news[1]
    /\ news[1].id = pre.news[1].id

\* the links of the batch of the last store_to_sql
BatchLinks ==
    {call.news_dict.News[i].Link : i \in 1..Len(call.news_dict.News)}

\* C26: a store_to_sql that re-encounters a stored link changes only the
\* record's title, date, date_as_date, description and image: every record
\* of before the call keeps its place, id, link, channel and channel URL
\* (also when the batch comes from another channel), and a record whose
\* link is not in the batch is left as it was
C26_UpsertFrame ==
    StoreDone =>
        /\ Len(news) >= Len(pre.news)
        /\ \A k \in 1..Len(pre.news) :
              /\ news[k].id = pre.news[k].id
              /\ news[k].link = pre.news[k].link
              /\ news[k].channel = pre.news[k].channel
              /\ news[k].url = pre.news[k].url
              /\ pre.news[k].link \notin BatchLinks => news[k] = pre.news[k]

\* a batch of another channel changed the title of a stored record, while
\* the record of another link stayed as it was
C26_Witness ==
    /\ StoreDone
    /\ Len(pre.news) = 2
    /\ Len(news) = 2
    /\ \E k \in 1..2 :
          /\ pre.news[k].channel # call.news_dict.Channel.Title
          /\ pre.news[k].link \in BatchLinks
          /\ news[k].title # pre.news[k].title
          /\ news[k].channel = pre.news[k].channel
          /\ news[3 - k] = pre.news[3 - k]
          /\ news[3 - k].link \notin BatchLinks

\* item i of the batch is the last one of its link
LastOfLink(items, i) ==
    \A j \in (i + 1)..Len(items) : items[j].Link # items[i].Link

\* a result entry gives the fields of the item back
EntryOf(entry, item) ==
    /\ entry.Title = item.Title
    /\ entry.Date = item.Date
    /\ entry.Description = item.Description
    /\ entry.Image = item.Image
    /\ entry.Link = item.Link

\* C29: after store_to_sql stored a batch without a store error, for every
\* item that is the last of its link in the batch, retrieve_from_sql with
\* the day of the item's parsed date, no source and no limit returns a
\* record with the item's title, date, description, image and link; when
\* the link was not stored before the call, the record's channel and
\* channel URL are those of the batch
C29_StoreRoundTrip ==
    StoreDone =>
        \A i \in 1..Len(call.news_dict.News) :
            LastOfLink(call.news_dict.News, i) =>
                \A out \in retrieve_from_sql(
                              St,
                              StrftimeYmd(parse_date(
                                  call.news_dict.News[i].Date,
                                  call.news_dict.News[i].Title).date_as_date),
                              PyNone, PyNone) :
                    /\ ~out.ret.error
                    /\ ~out.ret.none
                    /\ \E n \in 1..Len(out.ret.news_dict) :
                          /\ EntryOf(out.ret.news_dict[n],
                                     call.news_dict.News[i])
                          /\ ~Stored(pre.news, call.news_dict.News[i].Link)
                             => /\ out.ret.news_dict[n].Channel
                                     = call.news_dict.Channel.Title
                                /\ out.ret.news_dict[n].Channel_URL
                                     = call.news_dict.Channel.URL

\* a batch of two items with different links and different days was stored
\* on a store that held one of the links
C29_Witness ==
    /\ StoreDone
    /\ Len(call.news_dict.News) = 2
    /\ call.news_dict.News[1].Link # call.news_dict.News[2].Link
    /\ parse_date(call.news_dict.News[1].Date,
                  call.news_dict.News[1].Title).date_as_date
         # parse_date(call.news_dict.News[2].Date,
                      call.news_dict.News[2].Title).date_as_date
    /\ Len(pre.news) = 1
    /\ Len(news) = 2

\* one of the functions of rss_reader_sql.py has just ended with a store
\* error
StoreError ==
    /\ call.op \in {"create_sql_table", "store_to_sql", "retrieve_from_sql",
                    "clean_cache"}
    /\ ret.error

\* C24 (as claimed): a store error never crashes: a call of
\* create_sql_table, store_to_sql, retrieve_from_sql or clean_cache on a
\* cache file that is inaccessible or busy logs exactly one error and
\* leaves the records of the store and the ids handed out as they were
C24_StoreErrorLeavesStore ==
    StoreError =>
        /\ Len(SelectSeq(log, LAMBDA r : r.level = "error")) = 1
        /\ news = pre.news
        /\ seq = pre.seq

\* C28: store_to_sql is all-or-nothing: when it ends with a store error,
\* also after statements of the batch wrote rows in its transaction, the
\* records of the store and the ids handed out are those of before the call
C28_AllOrNothing ==
    (call.op = "store_to_sql" /\ ret.error) =>
        /\ news = pre.news
        /\ seq = pre.seq
        /\ Len(SelectSeq(log, LAMBDA r : r.level = "error")) = 1

\* store_to_sql failed at the commit after it had inserted one row and
\* updated another in its transaction
C28_Witness ==
    /\ call.op = "store_to_sql"
    /\ ret.error
    /\ ret.rolled_back = 2
    /\ Len(pre.news) = 1
    /\ news = pre.news

(***************************************************************************)
(* Properties of process_rss                                               *)
(***************************************************************************)

\* process_rss has just been called
ProcessCalled == call.op = "process_rss"

\* process_rss has just returned a dictionary
ProcessDone == ProcessCalled /\ ~ret.error /\ ~ret.none

\* the item elements of the feed just processed, in document order
FeedItems == FindAll(Find(call.root, "channel")[1], "item")

\* the feed just processed has a channel with at least one item
HasItems ==
    /\ Find(call.root, "channel") # PyNone
    /\ FeedItems # << >>

\* the number of items promised for n items under the limit
Promised(n, limit) == IF limit = PyNone THEN n ELSE Min(limit[1], n)

\* C9: for a feed with N >= 1 items and a limit L >= 1, process_rss returns
\* a dictionary with the Channel entry and exactly min(L, N) items, which
\* are the first min(L, N) items of the feed in document order under the
\* keys News 1 .. News min(L, N); with no limit it returns all N.
C9_FirstItemsUpToLimit ==
    (ProcessCalled /\ HasItems) =>
        /\ ProcessDone
        /\ ret.news_dict.Channel.URL = call.url
        /\ Len(ret.news_dict.News) = Promised(Len(FeedItems), call.limit)
        /\ \A n \in 1..Len(ret.news_dict.News) :
              ret.news_dict.News[n].Title
                 = StripOrEmpty(Find(FeedItems[n], "title"))

\* the url attribute of an enclosure, "" when it has none
UrlOf(enclosure) ==
    IF \E a \in enclosure.attrib : a[1] = "url"
    THEN (CHOOSE a \in enclosure.attrib : a[1] = "url")[2]
    ELSE << >>

\* the enclosure has a type attribute that contains "image", or no type
\* attribute (empty: or an empty one)
ImageTyped(enclosure, empty) ==
    \/ \A a \in enclosure.attrib : a[1] # "type"
    \/ \E a \in enclosure.attrib :
          /\ a[1] = "type"
          /\ \/ \E p \in 1..Len(a[2]) :
                   StartsAt(a[2], p, <<"i", "m", "a", "g", "e">>)
             \/ (empty /\ a[2] = << >>)

\* the enclosures of item n of the feed just processed
EnclosuresOf(n) == FindAll(FeedItems[n], "enclosure")

\* C10 as stated: for any item that has an enclosure whose type contains
\* "image" or is absent, the image process_rss resolves equals the url
\* attribute of that enclosure (the first such enclosure that has one),
\* whatever else the item, the channel and the root contain.
C10_EnclosureUrlAsIs ==
    ProcessDone =>
        \A n \in 1..Len(ret.news_dict.News) :
            LET ks == {k \in 1..Len(EnclosuresOf(n)) :
                         /\ ImageTyped(EnclosuresOf(n)[k], FALSE)
                         /\ \E a \in EnclosuresOf(n)[k].attrib : a[1] = "url"}
            IN  ks # {} =>
                  ret.news_dict.News[n].Image
                     = UrlOf(EnclosuresOf(n)[FirstPos(ks)])

\* the url u as the channel of the feed just processed makes it absolute
Absolute(u) ==
    IF u[1] = "/"
    THEN get_absolute_url(u, Find(call.root, "channel")[1])
    ELSE u

\* the positions of the enclosures of item n that have an image type, no
\* type or an empty type, and a url that is not empty
ImageEnclosures(n) ==
    {k \in 1..Len(EnclosuresOf(n)) :
        /\ ImageTyped(EnclosuresOf(n)[k], TRUE)
        /\ UrlOf(EnclosuresOf(n)[k]) # << >>}

\* C10 as amended: in every dictionary process_rss returns, an item that
\* has an enclosure with an image type, no type or an empty type and with a
\* url that is not empty gets as its image the url of the first such
\* enclosure, made absolute when it starts with "/", whatever its
\* description, its media elements, the channel image and the root image
\* contain.
C10_FirstImageEnclosureUrl ==
    ProcessDone =>
        \A n \in 1..Len(ret.news_dict.News) :
            ImageEnclosures(n) # {} =>
                ret.news_dict.News[n].Image
                   = Absolute(UrlOf(EnclosuresOf(n)[FirstPos(ImageEnclosures(n))]))

\* an item whose second enclosure is the first with an image url got that
\* url although its description holds an <img>, it has a thumbnail, and
\* the channel and the root have images
C10_Witness ==
    /\ ProcessDone
    /\ Len(ret.news_dict.News) = 1
    /\ ImageEnclosures(1) # {}
    /\ FirstPos(ImageEnclosures(1)) = 2
    /\ ret.news_dict.News[1].Image = <<"e", "2">>
    /\ get_image_link(TextOrEmpty(Find(FeedItems[1], "description"))) # PyNone
    /\ \E e \in {Iter(FeedItems[1])[i] : i \in 1..Len(Iter(FeedItems[1]))} :
          e.tag.name = "thumbnail"
    /\ FindIn(Find(Find(call.root, "channel")[1], "image"), "url") # PyNone
    /\ FindIn(Find(call.root, "image"), "url") # PyNone

\* rule 1 for item n: the url of the first enclosure that qualifies
EnclosureRule(n) ==
    IF ImageEnclosures(n) = {} THEN PyNone
    ELSE Some(UrlOf(EnclosuresOf(n)[FirstPos(ImageEnclosures(n))]))

\* rule 2 for item n: the <img src> of the raw description
DescriptionRule(n) ==
    get_image_link(TextOrEmpty(Find(FeedItems[n], "description")))

\* what a thumbnail, content or encoded element yields: its url attribute,
\* else the <img src> of its text
MediaUrl(e) ==
    IF NonEmpty(AttribGet(e, "url")) THEN AttribGet(e, "url")
    ELSE TextImageLink(e)

\* the positions among the elements es of those rule 3 looks at that yield
\* a URL
MediaHits(es) ==
    {k \in 1..Len(es) :
        /\ es[k].tag.name \in {"thumbnail", "content", "encoded"}
        /\ NonEmpty(MediaUrl(es[k]))}

\* rule 3 for item n
MediaRule(n) ==
    IF MediaHits(Iter(FeedItems[n])) = {} THEN PyNone
    ELSE MediaUrl(Iter(FeedItems[n])[FirstPos(MediaHits(Iter(FeedItems[n])))])

\* rules 4 and 5: the text of the image/url element of e
ImageUrlRule(e) ==
    IF FindIn(Find(e, "image"), "url") = PyNone THEN PyNone
    ELSE FindIn(Find(e, "image"), "url")[1].text

\* the URL of the first of the optional URLs us that is one, the
\* placeholder when none is
RECURSIVE FirstYield(_, _)
FirstYield(us, i) ==
    IF i > Len(us) THEN Placeholder
    ELSE IF NonEmpty(us[i]) THEN us[i][1]
    ELSE FirstYield(us, i + 1)

\* the six rules applied to item n in their order
FirstRule(n) ==
    FirstYield(<<EnclosureRule(n), DescriptionRule(n), MediaRule(n),
                 ImageUrlRule(Find(call.root, "channel")[1]),
                 ImageUrlRule(call.root)>>, 1)

\* C11: the image of every item is the URL of the first of the rules
\* (1) qualifying enclosure url, (2) <img src> of the raw description,
\* (3) url or <img src> of a thumbnail/content/encoded descendant,
\* (4) channel image/url, (5) root image/url, (6) placeholder that yields
\* one; a rule is passed over only when it yields no URL.
C11_FirstRuleWins ==
    ProcessDone =>
        \A n \in 1..Len(ret.news_dict.News) :
            ret.news_dict.News[n].Image = Absolute(FirstRule(n))

\* the text of the link of the channel just processed: None when the
\* channel has no link element or the element has no text
ChannelLink ==
    IF Find(Find(call.root, "channel")[1], "link") = PyNone THEN PyNone
    ELSE Find(Find(call.root, "channel")[1], "link")[1].text

\* the text t without one slash at its end
DropOneSlash(t) ==
    IF t # << >> /\ t[Len(t)] = "/" THEN SubSeq(t, 1, Len(t) - 1) ELSE t

\* the URL u resolved against the link of the channel
RootRelativeResolved(u, link) ==
    IF u = << >> \/ u[1] # "/" \/ link = PyNone THEN u
    ELSE DropOneSlash(link[1]) \o u

\* the image of item n of the feed just processed before it is resolved
UnresolvedImage(n) ==
    FallbackImage(ItemImage(FeedItems[n],
                            TextOrEmpty(Find(FeedItems[n], "description")),
                            FindAll(FeedItems[n], "enclosure")),
                  FindIn(Find(Find(call.root, "channel")[1], "image"), "url"),
                  FindIn(Find(call.root, "image"), "url"))[1]

\* C16: an item link or an image URL that starts with "/" is resolved to
\* the channel's link without one slash at its end followed by the URL; it
\* stays as it is when the channel has no link element or an empty one;
\* a URL that does not start with "/" is never altered.
C16_RootRelativeUrls ==
    ProcessDone =>
        \A n \in 1..Len(ret.news_dict.News) :
            /\ ret.news_dict.News[n].Link
                  = RootRelativeResolved(
                        StripOrEmpty(Find(FeedItems[n], "link")), ChannelLink)
            /\ ret.news_dict.News[n].Image
                  = RootRelativeResolved(UnresolvedImage(n), ChannelLink)

\* the link /a/b and the enclosure url /a/b of an item of the channel
\* with the link http://example.com/ became http://example.com/a/b
C16_Witness ==
    /\ ProcessDone
    /\ call.root = ExampleFeed
    /\ ChannelLink = Some(ExampleSite)
    /\ ret.news_dict.News[1].Link
          = SubSeq(ExampleSite, 1, Len(ExampleSite) - 1)
            \o <<"/", "a", "/", "b">>
    /\ ret.news_dict.News[1].Image = ret.news_dict.News[1].Link

\* the value is a string of characters, not the marker None
IsString(x) == x \in Seq(STRING)

\* C17: for every feed that has a channel and at least one item,
\* process_rss returns a result and does not raise, whichever fields are
\* absent or have no text, and in every item it returns Title, Date,
\* Description, Link and Image are strings.
C17_AbsenceNeverAborts ==
    (ProcessCalled /\ HasItems) =>
        /\ ~ret.error
        /\ ~ret.none
        /\ \A n \in 1..Len(ret.news_dict.News) :
              /\ IsString(ret.news_dict.News[n].Title)
              /\ IsString(ret.news_dict.News[n].Date)
              /\ IsString(ret.news_dict.News[n].Description)
              /\ IsString(ret.news_dict.News[n].Link)
              /\ IsString(ret.news_dict.News[n].Image)

(***************************************************************************)
(* Properties of parse_date                                                *)
(***************************************************************************)

\* parse_date has just returned
ParseDateDone == call.op = "parse_date"

\* what rule i alone makes of the raw date
RuleDate(i, date) ==
    Strptime(PySlice(date, DateFormats[i].lo, DateFormats[i].hi),
             DateFormats[i].fmt)

\* the rules that parse the raw date
RulesParsing(date) ==
    {i \in 1..Len(DateFormats) : RuleDate(i, date) # ValueError}

\* the examples in the order of their rules: RFC-822 with a 4-digit year,
\* RFC-822 with a 2-digit year, ISO-8601 with Z, ISO-8601 with a space,
\* trailing 24 characters
ExampleDates ==
    <<DateRfc4, DateRfc2Example, DateIsoZExample, DateIsoSpace, DateTrailing>>

\* 2021-10-12T17:06:02
ExampleTimestamp == <<2021, 10, 12, 17, 6, 2>>

\* C12: parse_date tries its five rules in the order RFC-822 4-digit year,
\* RFC-822 2-digit year, ISO-8601 with Z, ISO-8601 with space, trailing 24
\* characters and returns the timestamp of the first rule that parses; each
\* of the five examples is parsed by its rule to 2021-10-12T17:06:02.
C12_FirstRuleThatParses ==
    ParseDateDone =>
        /\ RulesParsing(call.date) # {} =>
              ret.date_as_date
                 = RuleDate(FirstPos(RulesParsing(call.date)), call.date)
        /\ \A i \in 1..Len(ExampleDates) :
              call.date = ExampleDates[i] =>
                  /\ FirstPos(RulesParsing(call.date)) = i
                  /\ ret.date_as_date = ExampleTimestamp

\* a raw date that the first rule parses to 12 October and the trailing
\* rule to 13 October was parsed to 12 October
C12_Witness ==
    /\ ParseDateDone
    /\ call.date = DateRfc4ThenTrailing
    /\ RulesParsing(call.date) = {1, 5}
    /\ RuleDate(5, call.date) = <<2021, 10, 13, 17, 6, 2>>
    /\ ret.date_as_date = ExampleTimestamp

\* C13: for every raw date, the empty string included, parse_date returns
\* a timestamp and does not raise; when no rule parses (as for 12.10.2021)
\* it returns 1900-01-01T00:00:00 and logs exactly one warning, which names
\* the title of the item; when a rule parses it logs no warning.
C13_SentinelAndOneWarning ==
    ParseDateDone =>
        /\ ~ret.error
        /\ Len(ret.date_as_date) = 6
        /\ RulesParsing(call.date) = {} =>
              /\ ret.date_as_date = SentinelDate
              /\ log = <<DateWarning(call.title)>>
        /\ RulesParsing(call.date) # {} => log = << >>
        /\ call.date \in {DateDotted, << >>} =>
              ret.date_as_date = <<1900, 1, 1, 0, 0, 0>>

\* 12.10.2021 under the title t1 gave the sentinel and one warning
C13_Witness ==
    /\ ParseDateDone
    /\ call.date = DateDotted
    /\ call.title = <<"t", "1">>
    /\ ret.date_as_date = SentinelDate
    /\ Len(log) = 1
    /\ log[1].title = <<"t", "1">>

(***************************************************************************)
(* Properties of strip_text                                                *)
(***************************************************************************)

\* strip_text has just returned
StripDone == call.op = "strip_text"

\* the cleaned text: without tags, stripped, whitespace replaced, entities
\* decoded
Cleaned(text) == Unescape(SubSpaces(PyStrip(SubTags(text, 1)), 1), 1)

\* the text ends with the marker ...
EndsWithMarker(s) ==
    Len(s) >= 3 /\ SubSeq(s, Len(s) - 2, Len(s)) = <<".", ".", ".">>

\* C14: strip_text returns at most 1000 characters: for a cleaned text of
\* more than 997 characters its first 997 followed by "..." (1000 in all),
\* for one of 997 or fewer the cleaned text unchanged; a plain text of 1500
\* characters gives exactly 1000 characters that end in "...".
C14_AtMost1000 ==
    StripDone =>
        /\ Len(ret.stripped) <= 1000
        /\ Len(Cleaned(call.text)) > 997 =>
              /\ ret.stripped
                    = SubSeq(Cleaned(call.text), 1, 997) \o <<".", ".", ".">>
              /\ Len(ret.stripped) = 1000
        /\ Len(Cleaned(call.text)) <= 997 =>
              ret.stripped = Cleaned(call.text)
        /\ call.text = PlainText(1500) =>
              Len(ret.stripped) = 1000 /\ EndsWithMarker(ret.stripped)

\* the plain text of 1500 characters came back as 997 of its characters
\* and the marker
C14_Witness ==
    /\ StripDone
    /\ call.text = PlainText(1500)
    /\ ret.stripped = PlainText(997) \o <<".", ".", ".">>

\* C15: the result of strip_text contains no markup tag, no run of two or
\* more whitespace characters, no newline and no &nbsp; entity and has no
\* space at its start or end, and a decoded entity such as &lt; appears as
\* its character.
C15_CleanResult ==
    StripDone =>
        /\ \A p \in 1..Len(ret.stripped) :
              /\ LazyTagEnd(ret.stripped, p, <<"<">>) = 0
              /\ WhiteRun(ret.stripped, p) < 2
              /\ ret.stripped[p] # "\n"
              /\ ~StartsAt(ret.stripped, p, Nbsp)
        /\ ret.stripped # << >> =>
              /\ ret.stripped[1] # " "
              /\ ret.stripped[Len(ret.stripped)] # " "
        /\ call.text = MarkedUpText =>
              \E p \in 1..Len(ret.stripped) : ret.stripped[p] = "<"

(***************************************************************************)
(* Properties of download_xml                                              *)
(***************************************************************************)

\* the errors among the records logged
ErrorsLogged == SelectSeq(log, LAMBDA r : r.level = "error")

\* download_xml has just been called on its own
DownloadDone == call.op = "download_xml"

\* run() has just ended an invocation that reached download_xml
RunDownloadDone ==
    /\ call.op = "run"
    /\ \E i \in 1..Len(ret.calls) : ret.calls[i] = "download_xml"

\* the URLs of the model that have no scheme ("h/a", "//h/a") and those
\* that have a scheme and no host ("http:h", "http:/кто")
UrlsWithoutScheme == {UrlNoScheme, UrlHostOnly}

UrlsWithoutHost == {UrlNoHost, UrlNoHostCyrillic}

\* the error InvalidURL a URL without scheme or host is reported with
InvalidUrlError(url) ==
    LogError(IF url \in UrlsWithoutScheme
             THEN "Invalid URL: no scheme supplied"
             ELSE "Invalid URL: no host supplied")

DownloadErrors ==
    { LogError("Invalid URL: no scheme supplied"),
      LogError("Invalid URL: no host supplied"),
      LogError("Unable to open URL"),
      LogError("Download of URL failed"),
      LogError("URL does not have valid XML data") }

\* C19: every failure of download_xml is reported as exactly one of
\* InvalidURL, NetworkError, HTTPStatusError and NotXML and never leaves the
\* function as an exception: a call that hands back no document has logged
\* exactly one of these errors, an HTTP status error is reported as
\* HTTPStatusError, a body that is not well-formed as NotXML, and every
\* other failure behind the checks of scheme and host (a host name that
\* cannot be encoded among them) as NetworkError.
C19_EveryFailureReported ==
    (DownloadDone /\ ret.root = PyNone)
    => /\ ret.raised = ""
       /\ Len(log) = 1
       /\ log[1] \in DownloadErrors
       /\ ret.requests # << >> =>
            log[1] = LogError(CASE call.response.kind = "HTTPError"
                                     -> "Download of URL failed"
                                [] call.response.kind = "ParseError"
                                     -> "URL does not have valid XML data"
                                [] OTHER -> "Unable to open URL")
       /\ call.url \in {UrlEmptyLabel, UrlEmptyAsciiLabel}
            => log[1] = LogError("Unable to open URL")

(***************************************************************************)
(* Properties of run                                                       *)
(***************************************************************************)

\* run() has just ended an invocation with a source in which download_xml
\* returned the document
RunDownloadedDone ==
    /\ call.op = "run"
    /\ ~call.args.clean
    /\ call.args.date = PyNone
    /\ call.response.kind = "xml"
    /\ ret.outcome \notin {"no cache file", "no document"}
    /\ \E i \in 1..Len(ret.calls) : ret.calls[i] = "process_rss"

\* the document has a channel without item elements
ZeroItems(root) ==
    /\ \E i \in 1..Len(root.children) : root.children[i].tag.name = "channel"
    /\ \A i \in 1..Len(root.children) :
          root.children[i].tag.name = "channel" =>
              \A j \in 1..Len(root.children[i].children) :
                  root.children[i].children[j].tag.name # "item"

\* the document has no channel element
ZeroChannels(root) ==
    \A i \in 1..Len(root.children) : root.children[i].tag.name # "channel"

\* C8: a feed whose channel has no item yields the error NoItems whatever
\* the limit is, process_rss returns no result and run() writes nothing to
\* the store; a document without a channel yields NoChannel and no write
\* either.
C8_EmptyFeedWritesNothing ==
    (RunDownloadedDone
       /\ (ZeroItems(call.response.root) \/ ZeroChannels(call.response.root)))
    => /\ ret.outcome = "no news"
       /\ ret.rss.none
       /\ ErrorsLogged
            = <<LogError(IF ZeroChannels(call.response.root)
                         THEN "RSS channel was not found in XML document"
                         ELSE "No news found in RSS channel")>>
       /\ news = pre.news
       /\ seq = pre.seq

\* a feed without items was processed under the limit 1 while the store
\* held rows, and the invocation was then repeated
C8_Witness ==
    /\ RunDownloadedDone
    /\ ZeroItems(call.response.root)
    /\ call.args.limit = Some(1)
    /\ ret.outcome = "no news"
    /\ pre.news # << >>
    /\ again

\* the functions run() called
RunCalls == {ret.calls[i] : i \in 1..Len(ret.calls)}

\* C20: the retrieval path is independent of the network.  In every run
\* with a date and without clean, download_xml, process_rss and
\* store_to_sql are not called, no request is sent, and what is printed is
\* what retrieve_from_sql returned; in every run with clean, none of
\* download_xml, process_rss, store_to_sql and retrieve_from_sql is called
\* and no request is sent.
C20_RetrievalWithoutNetwork ==
    call.op = "run" =>
        /\ (call.args.date # PyNone /\ ~call.args.clean)
           => /\ RunCalls \subseteq {"create_sql_table", "retrieve_from_sql"}
              /\ ret.requests = << >>
              /\ ret.rss = NoRss
              /\ ret.store = NoStore
              /\ ret.outcome = "printed"
                   => /\ ret.calls[Len(ret.calls)] = "retrieve_from_sql"
                      /\ ret.retrieved # << >>
                      /\ Printed = log[Len(log)]
              /\ ret.outcome \in {"printed", "nothing retrieved",
                                  "no cache file"}
        /\ call.args.clean
           => /\ RunCalls \subseteq {"create_sql_table", "clean_cache"}
              /\ ret.requests = << >>
              /\ ret.rss = NoRss
              /\ ret.store = NoStore
              /\ ret.retrieved = << >>
              /\ ret.outcome \in {"cleaned", "no cache file"}

\* a run with a date and a source printed the news of the cache file while
\* the network would have answered with a document
C20_Witness ==
    /\ call.op = "run"
    /\ call.args.date # PyNone
    /\ call.args.source # PyNone
    /\ ~call.args.clean
    /\ call.response.kind = "xml"
    /\ ret.outcome = "printed"
    /\ ret.calls = <<"retrieve_from_sql">>
    /\ ret.requests = << >>

\* a run with clean, a date and a source emptied a cache file that held
\* news while the network would have answered with a document
C20_WitnessClean ==
    /\ call.op = "run"
    /\ call.args.clean
    /\ call.args.date # PyNone
    /\ call.args.source # PyNone
    /\ call.response.kind = "xml"
    /\ ret.outcome = "cleaned"
    /\ pre.news # << >>
    /\ news = << >>

\* C27: in every run of run(), store_to_sql is called only after
\* download_xml returned a document and process_rss returned a result with
\* at least one item; a run that ends with an input, transport or format
\* error (no document from download_xml, or None from process_rss) logs
\* that one error, leaves the records of the store and the ids handed out
\* as they were before the run, and prints nothing.
C27_StoreOnlyAfterItems ==
    call.op = "run" =>
        /\ "store_to_sql" \in RunCalls
           => /\ \E i, j, k \in 1..Len(ret.calls) :
                    /\ i < j
                    /\ j < k
                    /\ ret.calls[i] = "download_xml"
                    /\ ret.calls[j] = "process_rss"
                    /\ ret.calls[k] = "store_to_sql"
              /\ call.response.kind = "xml"
              /\ ~ret.rss.none
              /\ ~ret.rss.raised
              /\ Len(ret.rss.news_dict.News) >= 1
        /\ ret.outcome \in {"no document", "no news"}
           => /\ "store_to_sql" \notin RunCalls
              /\ news = pre.news
              /\ seq = pre.seq
              /\ Len(ErrorsLogged) = 1
              /\ \A i \in 1..Len(log) : log[i] # Printed

\* a run whose download ended with an HTTP status error left a store with
\* records as it was
C27_Witness ==
    /\ call.op = "run"
    /\ call.response.kind = "HTTPError"
    /\ ret.outcome = "no document"
    /\ ret.calls = <<"download_xml">>
    /\ pre.news # << >>
    /\ news = pre.news

\* a run stored the items of a feed
C27_WitnessStored ==
    /\ call.op = "run"
    /\ ret.calls = <<"download_xml", "process_rss", "store_to_sql">>
    /\ ret.outcome = "printed"
    /\ Len(news) > Len(pre.news)

=============================================================================
